---- MODULE Spec2Model ----
(***************************************************************************)
(* Dialog session and booking-intent engine of the salon Telegram bot      *)
(* (src/bot/dialog_manager.py, src/bot/openai_client.py).                  *)
(*                                                                         *)
(* Time is counted in minutes since 2025-01-01 00:00 (a Wednesday).        *)
(* Texts are sequences of one-letter strings; a Cyrillic letter is written *)
(* by a Latin name of its own (ya, ch, q for the soft sign, ...), a        *)
(* capital by the capitalised name, so substring tests mean what they mean *)
(* on the original text.                                                   *)
(***************************************************************************)
EXTENDS Integers, Sequences, FiniteSets, TLC

VARIABLES
    now,            \* the clock: datetime.now() / datetime.utcnow()
    ticks,          \* how many times the clock has advanced
    clients,        \* table clients: row i has id i
    sessions,       \* table sessions
    messages,       \* table messages
    appointments,   \* table appointments
    usage,          \* table openai_usage_logs
    reqs,           \* utterances delivered so far
    pc,             \* per handler: its position inside process_message
    loc,            \* per handler: the local variables of process_message
    slotIn,         \* arguments of the latest _generate_available_slots call
    slotOut,        \* its result
    refreshes,      \* the fact refreshes so far: the answer extract_facts
                    \* was given and how the refresh ended
    calls           \* the remote calls that returned, in their order

vars == <<now, ticks, clients, sessions, messages, appointments, usage,
          reqs, pc, loc, slotIn, slotOut, refreshes, calls>>

store == <<clients, sessions, messages, appointments, usage>>

\* None where a value is optional: the empty sequence; a present value v is <<v>>
None == <<>>

Some(v) == <<v>>

Val(o) == o[1]

-----------------------------------------------------------------------------
(* Text helpers                                                            *)

Digits == {"0", "1", "2", "3", "4", "5", "6", "7", "8", "9"}

IsDigit(c) == c \in Digits

DigitVal(c) ==
    CASE c = "0" -> 0 [] c = "1" -> 1 [] c = "2" -> 2 [] c = "3" -> 3
      [] c = "4" -> 4 [] c = "5" -> 5 [] c = "6" -> 6 [] c = "7" -> 7
      [] c = "8" -> 8 [] c = "9" -> 9

DigitChar(n) ==
    CASE n = 0 -> "0" [] n = 1 -> "1" [] n = 2 -> "2" [] n = 3 -> "3"
      [] n = 4 -> "4" [] n = 5 -> "5" [] n = 6 -> "6" [] n = 7 -> "7"
      [] n = 8 -> "8" [] n = 9 -> "9"

\* int(s) of a non-empty string of digits
RECURSIVE ToInt(_)
ToInt(s) ==
    IF Len(s) = 0 THEN 0
    ELSE 10 * ToInt(SubSeq(s, 1, Len(s) - 1)) + DigitVal(s[Len(s)])

AllDigits(s) == \A i \in 1..Len(s) : IsDigit(s[i])

\* f"{n:02d}" for 0 <= n <= 99
Fmt02(n) == <<DigitChar(n \div 10), DigitChar(n % 10)>>

\* Python's `sub in s` on strings
Contains(sub, s) ==
    \E i \in 1..(Len(s) - Len(sub) + 1) : SubSeq(s, i, i + Len(sub) - 1) = sub

\* str.lower(): the capitals the modelled texts use
LowerChar(c) ==
    CASE c = "P" -> "p" [] c = "S" -> "s" [] c = "V" -> "v"
      [] c = "H" -> "h" [] OTHER -> c

Lower(s) == [i \in 1..Len(s) |-> LowerChar(s[i])]

\* where sep occurs in s
SepPositions(s, sep) == {i \in 1..Len(s) : s[i] = sep}

-----------------------------------------------------------------------------
(* Calendar: datetime(y, m, d), strptime, weekday()                        *)

MinutesPerDay == 24 * 60

IsLeap(y) == (y % 4 = 0) /\ ((y % 100 # 0) \/ (y % 400 = 0))

DaysInMonth(y, m) ==
    IF m = 2 THEN (IF IsLeap(y) THEN 29 ELSE 28)
    ELSE IF m \in {4, 6, 9, 11} THEN 30 ELSE 31

\* datetime(y, m, d) raises ValueError outside these ranges
ValidDate(y, m, d) ==
    /\ y \in 1..9999
    /\ m \in 1..12
    /\ d >= 1
    /\ d <= DaysInMonth(y, m)

DaysBeforeYear(y) ==
    (y - 1) * 365 + ((y - 1) \div 4) - ((y - 1) \div 100) + ((y - 1) \div 400)

RECURSIVE DaysBeforeMonth(_, _)
DaysBeforeMonth(y, m) ==
    IF m = 1 THEN 0 ELSE DaysBeforeMonth(y, m - 1) + DaysInMonth(y, m - 1)

\* date.toordinal()
Ordinal(y, m, d) == DaysBeforeYear(y) + DaysBeforeMonth(y, m) + d

\* days since 2025-01-01 of a valid date
DayNumber(y, m, d) == Ordinal(y, m, d) - Ordinal(2025, 1, 1)

\* the datetime y-m-d hh:mi as minutes since 2025-01-01 00:00
DateTime(y, m, d, hh, mi) == DayNumber(y, m, d) * MinutesPerDay + hh * 60 + mi

DayOf(t) == t \div MinutesPerDay

MinuteOfDay(t) == t % MinutesPerDay

\* datetime.weekday(): Monday is 0; 2025-01-01 is a Wednesday
Weekday(t) == (DayOf(t) + 2) % 7

\* datetime.year, for the years the model's clock visits
YearOf(t) ==
    CHOOSE y \in 2020..2030 :
        /\ DayNumber(y, 1, 1) <= DayOf(t)
        /\ DayOf(t) < DayNumber(y + 1, 1, 1)

\* dt.replace(hour=hh, minute=mi)
ReplaceTime(t, hh, mi) == DayOf(t) * MinutesPerDay + hh * 60 + mi

\* a field of strptime: 1..maxlen digits whose value lies in lo..hi
NumField(p, lo, hi, maxlen) ==
    /\ Len(p) \in 1..maxlen
    /\ AllDigits(p)
    /\ ToInt(p) \in lo..hi

Min(S) == CHOOSE x \in S : \A y \in S : x <= y

Max(S) == CHOOSE x \in S : \A y \in S : x >= y

\* datetime.strptime(s, "%d<sep>%m<sep>%Y"): Some(midnight of the day), or None
\* for ValueError
StrptimeDMY(s, sep) ==
    LET P == SepPositions(s, sep) IN
    IF Cardinality(P) # 2 THEN None
    ELSE
        LET i == Min(P)
            j == Max(P)
            dd == SubSeq(s, 1, i - 1)
            mm == SubSeq(s, i + 1, j - 1)
            yy == SubSeq(s, j + 1, Len(s))
        IN  IF /\ NumField(dd, 1, 31, 2)
               /\ NumField(mm, 1, 12, 2)
               /\ Len(yy) = 4
               /\ AllDigits(yy)
               /\ ValidDate(ToInt(yy), ToInt(mm), ToInt(dd))
            THEN Some(DateTime(ToInt(yy), ToInt(mm), ToInt(dd), 0, 0))
            ELSE None

\* datetime.strptime(s, "%Y-%m-%d")
StrptimeYMD(s) ==
    LET P == SepPositions(s, "-") IN
    IF Cardinality(P) # 2 THEN None
    ELSE
        LET i == Min(P)
            j == Max(P)
            yy == SubSeq(s, 1, i - 1)
            mm == SubSeq(s, i + 1, j - 1)
            dd == SubSeq(s, j + 1, Len(s))
        IN  IF /\ NumField(dd, 1, 31, 2)
               /\ NumField(mm, 1, 12, 2)
               /\ Len(yy) = 4
               /\ AllDigits(yy)
               /\ ValidDate(ToInt(yy), ToInt(mm), ToInt(dd))
            THEN Some(DateTime(ToInt(yy), ToInt(mm), ToInt(dd), 0, 0))
            ELSE None

\* the "%H:%M" part of strptime: Some(minutes after midnight), or None
StrptimeHM(s) ==
    LET P == SepPositions(s, ":") IN
    IF Cardinality(P) # 1 THEN None
    ELSE
        LET i == Min(P)
            hh == SubSeq(s, 1, i - 1)
            mi == SubSeq(s, i + 1, Len(s))
        IN  IF NumField(hh, 0, 23, 2) /\ NumField(mi, 0, 59, 2)
            THEN Some(ToInt(hh) * 60 + ToInt(mi))
            ELSE None

\* datetime.strptime(f"{preferred_date} {preferred_time}", "%Y-%m-%d %H:%M")
StrptimeYMDHM(preferred_date, preferred_time) ==
    IF StrptimeYMD(preferred_date) = None \/ StrptimeHM(preferred_time) = None
    THEN None
    ELSE Some(Val(StrptimeYMD(preferred_date)) + Val(StrptimeHM(preferred_time)))

-----------------------------------------------------------------------------
(* Candidate slots: DialogManager._generate_available_slots                *)

\* the first date format of the list that parses preferred_date; the clock
\* when there is no preferred date or none parses
SlotStartDate(preferred_date, t) ==
    IF preferred_date = None THEN t
    ELSE IF StrptimeDMY(preferred_date, ".") # None
         THEN Val(StrptimeDMY(preferred_date, "."))
    ELSE IF StrptimeYMD(preferred_date) # None
         THEN Val(StrptimeYMD(preferred_date))
    ELSE IF StrptimeDMY(preferred_date, "/") # None
         THEN Val(StrptimeDMY(preferred_date, "/"))
    ELSE IF StrptimeDMY(preferred_date, "-") # None
         THEN Val(StrptimeDMY(preferred_date, "-"))
    ELSE t

WindowDays == 7

FirstHour == 9

LastHour == 19

SlotsPerDay == (LastHour - FirstHour) * 2

MaxSlots == 10

\* `preferred_time and preferred_time in time_str`
PreferredTimeMatches(preferred_time, time_str) ==
    /\ preferred_time # None
    /\ Contains(preferred_time, time_str)

\* a generator that skips Sundays only
IsSunday(t) == Weekday(t) >= 6

\* a generator that skips every day
SkipsEveryDay(t) == TRUE

\* `current_date.weekday() >= 5`
IsWeekend(t) == Weekday(t) >= 5

\* the j-th slot of the two inner loops on current_date, j from 1
SlotAt(current_date, j) ==
    LET hour == FirstHour + (j - 1) \div 2
        minute == 30 * ((j - 1) % 2)
    IN  [date |-> DayOf(current_date),
         time |-> Fmt02(hour) \o <<":">> \o Fmt02(minute),
         datetime |-> ReplaceTime(current_date, hour, minute)]

\* the slots of current_date that slots.insert(0, ...) puts in front, after
\* its first j slots: those of the preferred time, the latest first
RECURSIVE DayInserted(_, _, _)
DayInserted(current_date, preferred_time, j) ==
    IF j = 0 THEN <<>>
    ELSE IF PreferredTimeMatches(preferred_time, SlotAt(current_date, j).time)
         THEN <<SlotAt(current_date, j)>>
              \o DayInserted(current_date, preferred_time, j - 1)
    ELSE DayInserted(current_date, preferred_time, j - 1)

\* a loop that puts the other slots of a day in front of one another
RECURSIVE DayPrepended(_, _, _)
DayPrepended(current_date, preferred_time, j) ==
    IF j = 0 THEN <<>>
    ELSE IF PreferredTimeMatches(preferred_time, SlotAt(current_date, j).time)
         THEN DayPrepended(current_date, preferred_time, j - 1)
    ELSE <<SlotAt(current_date, j)>>
         \o DayPrepended(current_date, preferred_time, j - 1)

\* the slots of current_date that slots.append(...) puts at the end
RECURSIVE DayAppended(_, _, _)
DayAppended(current_date, preferred_time, j) ==
    IF j = 0 THEN <<>>
    ELSE IF PreferredTimeMatches(preferred_time, SlotAt(current_date, j).time)
         THEN DayAppended(current_date, preferred_time, j - 1)
    ELSE Append(DayAppended(current_date, preferred_time, j - 1),
                SlotAt(current_date, j))

\* a loop that appends the slots of the preferred time like the others
RECURSIVE SlotsAllAppended(_, _, _)
SlotsAllAppended(start_date, preferred_time, n) ==
    IF n = 0 THEN <<>>
    ELSE LET current_date == start_date + (n - 1) * MinutesPerDay IN
         IF IsWeekend(current_date)
         THEN SlotsAllAppended(start_date, preferred_time, n - 1)
         ELSE SlotsAllAppended(start_date, preferred_time, n - 1)
              \o DayAppended(current_date, None, SlotsPerDay)

\* `slots` after the first n days of the outer loop
RECURSIVE SlotsAfterDays(_, _, _)
SlotsAfterDays(start_date, preferred_time, n) ==
    IF n = 0 THEN <<>>
    ELSE LET current_date == start_date + (n - 1) * MinutesPerDay IN
         IF IsWeekend(current_date)
         THEN SlotsAfterDays(start_date, preferred_time, n - 1)
         ELSE DayInserted(current_date, preferred_time, SlotsPerDay)
              \o SlotsAfterDays(start_date, preferred_time, n - 1)
              \o DayAppended(current_date, preferred_time, SlotsPerDay)

\* slots[:n]
Take(s, n) == SubSeq(s, 1, IF Len(s) < n THEN Len(s) ELSE n)

GenerateAvailableSlots(preferred_date, preferred_time, t) ==
    Take(SlotsAfterDays(SlotStartDate(preferred_date, t), preferred_time,
                        WindowDays),
         MaxSlots)

-----------------------------------------------------------------------------
(* Pattern matching of the fast path: re.search                            *)

DigitsAt(s, i, n) ==
    /\ i >= 1
    /\ i + n - 1 <= Len(s)
    /\ \A k \in i..(i + n - 1) : IsDigit(s[k])

CharAt(s, i, set) == i >= 1 /\ i <= Len(s) /\ s[i] \in set

\* re.search(r"\d{1,2}[./-]\d{1,2}(?:[./-]\d{2,4})?", s): the optional tail
\* and the second digits never decide whether a match exists
DatePatternFound(s) ==
    \E i \in 1..Len(s) :
        /\ DigitsAt(s, i, 1)
        /\ CharAt(s, i + 1, {".", "/", "-"})
        /\ DigitsAt(s, i + 2, 1)

\* re.search(r"\d{1,2}[:.]\d{2}", s)
TimePatternFound(s) ==
    \E i \in 1..Len(s) :
        /\ DigitsAt(s, i, 1)
        /\ CharAt(s, i + 1, {":", "."})
        /\ DigitsAt(s, i + 2, 2)

\* the matches <<i, a, b>> of (\d{1,2})<sep>(\d{b})... starting at i, the groups
\* a and b digits long
PairMatches(s, sep, bLens) ==
    {m \in (1..Len(s)) \X {1, 2} \X bLens :
        /\ DigitsAt(s, m[1], m[2])
        /\ CharAt(s, m[1] + m[2], {sep})
        /\ DigitsAt(s, m[1] + m[2] + 1, m[3])}

\* re.search takes the leftmost match, and the longest groups there
Leftmost(M) ==
    CHOOSE m \in M :
        \A n \in M : m[1] < n[1] \/ (m[1] = n[1] /\ m[3] >= n[3])

\* re.search(r"(\d{1,2})<sep>(\d{1,2})", s) or, with bLens = {2},
\* r"(\d{1,2})<sep>(\d{2})": Some(<<group 1, group 2>>) as numbers, or None
SearchPair(s, sep, bLens) ==
    LET M == PairMatches(s, sep, bLens) IN
    IF M = {} THEN None
    ELSE LET m == Leftmost(M) IN
         Some(<<ToInt(SubSeq(s, m[1], m[1] + m[2] - 1)),
                ToInt(SubSeq(s, m[1] + m[2] + 1, m[1] + m[2] + m[3]))>>)

TripleMatches(s, sep) ==
    {m \in PairMatches(s, sep, {1, 2}) :
        /\ CharAt(s, m[1] + m[2] + m[3] + 1, {sep})
        /\ DigitsAt(s, m[1] + m[2] + m[3] + 2, 4)}

\* re.search(r"(\d{1,2})<sep>(\d{1,2})<sep>(\d{4})", s): Some(<<day, month, year>>)
SearchTriple(s, sep) ==
    LET M == TripleMatches(s, sep) IN
    IF M = {} THEN None
    ELSE LET m == Leftmost(M)
             y == m[1] + m[2] + m[3] + 2
         IN  Some(<<ToInt(SubSeq(s, m[1], m[1] + m[2] - 1)),
                    ToInt(SubSeq(s, m[1] + m[2] + 1, m[1] + m[2] + m[3])),
                    ToInt(SubSeq(s, y, y + 3))>>)

-----------------------------------------------------------------------------
(* The words of the fast path                                              *)

W_ponedelqnik == <<"p", "o", "n", "e", "d", "e", "l", "q", "n", "i", "k">>
W_vtornik == <<"v", "t", "o", "r", "n", "i", "k">>
W_sred == <<"s", "r", "e", "d">>
W_chetverg == <<"ch", "e", "t", "v", "e", "r", "g">>
W_pyatnic == <<"p", "ya", "t", "n", "i", "c">>
W_subbot == <<"s", "u", "b", "b", "o", "t">>
W_voskres == <<"v", "o", "s", "k", "r", "e", "s">>

\* weekday_map, in the order of the dict
WeekdayWords ==
    <<W_ponedelqnik, W_vtornik, W_sred, W_chetverg, W_pyatnic, W_subbot,
      W_voskres>>

W_utr == <<"u", "t", "r">>
W_dn == <<"d", "n">>
W_vech == <<"v", "e", "ch">>
W_noch == <<"n", "o", "ch">>

MorningWords == {W_utr, W_utr \o <<"o", "m">>, W_utr \o <<"o">>}

DayWords ==
    {W_dn, <<"d", "n", "e", "m">>, <<"d", "n", "yo", "m">>,
     <<"d", "e", "n", "q">>}

EveningWords == {W_vech, W_vech \o <<"e", "r">>, W_vech \o <<"e", "r", "o", "m">>}

ContainsAny(words, s) == \E w \in words : Contains(w, s)

\* DialogManager._is_booking_confirmation
IsBookingConfirmation(message_text) ==
    \/ DatePatternFound(message_text) /\ TimePatternFound(message_text)
    \/ /\ \E k \in 1..Len(WeekdayWords) :
              Contains(WeekdayWords[k], Lower(message_text))
       /\ ContainsAny({W_utr, W_dn, W_vech, W_noch}, Lower(message_text))

-----------------------------------------------------------------------------
(* The confirmation path: DialogManager._handle_booking_confirmation       *)

\* the date patterns in their order; a match that is no calendar date
\* (ValueError) moves on to the next pattern
ExtractDate(message_text, t) ==
    LET m1 == SearchTriple(message_text, ".")
        m2 == SearchPair(message_text, ".", {1, 2})
        m3 == SearchTriple(message_text, "/")
        m4 == SearchTriple(message_text, "-")
        Ok3(m) == m # None /\ ValidDate(Val(m)[3], Val(m)[2], Val(m)[1])
        Date3(m) == Some(DateTime(Val(m)[3], Val(m)[2], Val(m)[1], 0, 0))
    IN  IF Ok3(m1) THEN Date3(m1)
        ELSE IF m2 # None /\ ValidDate(YearOf(t), Val(m2)[2], Val(m2)[1])
             THEN Some(DateTime(YearOf(t), Val(m2)[2], Val(m2)[1], 0, 0))
        ELSE IF Ok3(m3) THEN Date3(m3)
        ELSE IF Ok3(m4) THEN Date3(m4)
        ELSE None

\* the time patterns in their order: Some(minutes after midnight) or None
ExtractTime(message_text) ==
    LET m1 == SearchPair(message_text, ":", {2})
        m2 == SearchPair(message_text, ".", {2})
        Ok(m) == m # None /\ Val(m)[1] <= 23 /\ Val(m)[2] <= 59
        Time(m) == Some(Val(m)[1] * 60 + Val(m)[2])
    IN  IF Ok(m1) THEN Time(m1)
        ELSE IF Ok(m2) THEN Time(m2)
        ELSE None

\* the first key of weekday_map found in the lowered text
NamedWeekday(message_text) ==
    LET K == {k \in 1..Len(WeekdayWords) :
                 Contains(WeekdayWords[k], Lower(message_text))}
    IN  IF K = {} THEN None ELSE Some(Min(K) - 1)

\* a resolution that takes today when today is the named weekday
SameOrNextWeekday(wval, t) ==
    (DayOf(t) + ((wval - Weekday(t)) % 7)) * MinutesPerDay

\* the next occurrence of weekday wval after the day of t, at 00:00
NextWeekday(wval, t) ==
    LET days_ahead == (wval - Weekday(t)) % 7 IN
    (DayOf(t) + (IF days_ahead = 0 THEN 7 ELSE days_ahead)) * MinutesPerDay

\* a mapping in which a night word stands for 22:00
PartOfDayTimeWithNight(message_text) ==
    IF ContainsAny(MorningWords, Lower(message_text)) THEN Some(10 * 60)
    ELSE IF ContainsAny(DayWords, Lower(message_text)) THEN Some(13 * 60)
    ELSE IF ContainsAny(EveningWords, Lower(message_text)) THEN Some(18 * 60)
    ELSE IF Contains(W_noch, Lower(message_text)) THEN Some(22 * 60)
    ELSE None

\* the hour a part-of-day word stands for
PartOfDayTime(message_text) ==
    IF ContainsAny(MorningWords, Lower(message_text)) THEN Some(10 * 60)
    ELSE IF ContainsAny(DayWords, Lower(message_text)) THEN Some(13 * 60)
    ELSE IF ContainsAny(EveningWords, Lower(message_text)) THEN Some(18 * 60)
    ELSE None

ConfirmationDate(message_text, t) ==
    IF ExtractDate(message_text, t) # None THEN ExtractDate(message_text, t)
    ELSE IF NamedWeekday(message_text) # None
         THEN Some(NextWeekday(Val(NamedWeekday(message_text)), t))
    ELSE None

ConfirmationTime(message_text) ==
    IF ExtractTime(message_text) # None THEN ExtractTime(message_text)
    ELSE PartOfDayTime(message_text)

\* `appointment_datetime <= datetime.now()`
NotInFuture(appointment_datetime, t) == appointment_datetime <= t

\* what the confirmation path decides before it touches the store
ConfirmationDecision(message_text, t) ==
    LET d == ConfirmationDate(message_text, t)
        tm == ConfirmationTime(message_text)
    IN  IF d = None THEN [kind |-> "ask_date", datetime |-> None]
        ELSE IF tm = None THEN [kind |-> "ask_time", datetime |-> None]
        ELSE IF NotInFuture(Val(d) + Val(tm), t)
             THEN [kind |-> "ask_future", datetime |-> None]
        ELSE [kind |-> "create", datetime |-> Some(Val(d) + Val(tm))]

-----------------------------------------------------------------------------
(* The classifier: OpenAIClient.process_booking_request                    *)

\* dict.get(key, default)
Get(d, key, default) == IF key \in DOMAIN d THEN d[key] ELSE default

\* an except branch whose verdict names no intent
VerdictWithoutIntent == [confidence |-> 0, response |-> "apology"]

\* the verdict of the except branch
DegradedVerdict == [intent |-> "other", confidence |-> 0, response |-> "apology"]

\* What the completion service can do with a classification call:
\*   remote_error  the call raises
\*   log_error     the call answers, the usage record cannot be stored
\*   text          the answer is no JSON
\*   json_other    the answer is JSON but no object (a list, a number, null)
\*   object        the answer is a JSON object
ClassifierFailures == {"remote_error", "log_error", "text", "json_other"}

\* the usage record is written after the call and before json.loads
UsageLogged(reply) == reply.kind \notin {"remote_error", "log_error"}

\* the verdict the call returns; it never raises
ProcessBookingRequest(reply) ==
    IF reply.kind = "object" THEN reply.object ELSE DegradedVerdict

-----------------------------------------------------------------------------
(* The slot resolution engine: DialogManager._handle_booking_request       *)

\* Python truthiness of an optional string or list
Truthy(x) == x # None

\* a JSON number where the prompt asks for a string: the token "number" and
\* the digits
JsonNumber(digits) == <<"number">> \o digits

IsString(x) == x = None \/ x[1] # "number"

\* f"{x}"
Format(x) == IF IsString(x) THEN x ELSE Tail(x)

\* an engine that creates at once whatever the clarification topics
WantsCreationDespiteTopics(analysis) ==
    /\ Truthy(Get(analysis, "preferred_date", None))
    /\ Truthy(Get(analysis, "preferred_time", None))

\* `not needs_clarification and preferred_date and preferred_time`
WantsImmediateCreation(analysis) ==
    /\ ~Truthy(Get(analysis, "needs_clarification", None))
    /\ Truthy(Get(analysis, "preferred_date", None))
    /\ Truthy(Get(analysis, "preferred_time", None))

\* the timestamp of the appointment created at once, or None when the try
\* block is not entered or strptime raises
ImmediateDatetime(analysis) ==
    IF WantsImmediateCreation(analysis)
    THEN StrptimeYMDHM(Format(analysis.preferred_date),
                       Format(analysis.preferred_time))
    ELSE None

\* `preferred_time in time_str` in _generate_available_slots raises TypeError
\* when preferred_time is no string; the clarification reply comes first
SlotGenerationRaises(analysis) ==
    /\ ~Truthy(Get(analysis, "needs_clarification", None))
    /\ Truthy(Get(analysis, "preferred_time", None))
    /\ ~IsString(Get(analysis, "preferred_time", None))

\* the reply once no appointment has been created
BookingReplyWithoutCreation(analysis, t) ==
    IF Truthy(Get(analysis, "needs_clarification", None))
    THEN "clarification_requested"
    ELSE IF GenerateAvailableSlots(Get(analysis, "preferred_date", None),
                                   Get(analysis, "preferred_time", None), t) = <<>>
         THEN "no_slots"
    ELSE "slots_offered"

-----------------------------------------------------------------------------
(* Bounds and inputs                                                       *)

\* handlers that may be inside process_message at the same time
Procs == {"h1", "h2"}

TelegramIds == {"a", "b"}

\* utterances and days while the confirmation path is explored
ConfirmRequests == 2
ConfirmDays == 7

\* utterances while the fact refresh is explored
FactRequests == 3

\* utterances and clock steps while interleaved handlers are explored
MaxRequests == 2
MaxTicks == 1

\* utterances and clock steps while serial session tracking is explored
SerialRequests == 3
SerialTicks == 2

\* utterances and clock steps while the dialog of one customer is explored
DialogRequests == 2
DialogTicks == 1

\* days the clock advances while the slot generator is explored
SlotDays == 7

\* settings.session_timeout_hours, in minutes
SessionTimeout == 6 * 60

\* the clock advances by the session timeout or by a minute more
TimeoutSteps == {SessionTimeout, SessionTimeout + 1}

\* a minute before 17.07.2025 14:30
StartTimes == {DateTime(2025, 7, 17, 14, 29)}

\* "hochu zapisatqsya" (I want to book)
T_book == <<"H", "o", "ch", "u", " ", "z", "a", "p", "i", "s", "a", "t", "q", "s", "ya">>
\* "17.07.2025 14:30"
T_date_time ==
    <<"1", "7", ".", "0", "7", ".", "2", "0", "2", "5", " ", "1", "4", ":", "3", "0">>
\* "01.01.2020 10:00"
T_past ==
    <<"0", "1", ".", "0", "1", ".", "2", "0", "2", "0", " ", "1", "0", ":", "0", "0">>
\* "Pyatnica vecherom" (Friday evening)
T_friday_evening ==
    <<"P", "ya", "t", "n", "i", "c", "a", " ", "v", "e", "ch", "e", "r", "o", "m">>

Texts == {T_book, T_date_time, T_past, T_friday_evening}

\* "18.07.2025"
T_date_only == <<"1", "8", ".", "0", "7", ".", "2", "0", "2", "5">>
\* "14.30"
T_time_only == <<"1", "4", ".", "3", "0">>
\* "pyatnica nochqyu" (Friday at night)
T_friday_night ==
    <<"p", "ya", "t", "n", "i", "c", "a", " ", "n", "o", "ch", "q", "yu">>

\* "vecherom" (in the evening), "utrom" (in the morning), "dnyom" (in the
\* afternoon), one of them for each name of weekday_map
PartOfDayWord(k) ==
    IF k % 3 = 1 THEN <<"v", "e", "ch", "e", "r", "o", "m">>
    ELSE IF k % 3 = 2 THEN <<"u", "t", "r", "o", "m">>
    ELSE <<"d", "n", "yo", "m">>

\* "<weekday> <part of day>" for the seven names of weekday_map
WeekdayTexts ==
    {WeekdayWords[k] \o <<" ">> \o PartOfDayWord(k) : k \in 1..Len(WeekdayWords)}

\* the texts while the confirmation path is explored
ConfirmTexts ==
    {T_book, T_date_only, T_time_only, T_friday_night}
    \cup WeekdayTexts

\* the texts while session tracking is explored
SessionTexts == {T_book}

S_2025_07_20 == <<"2", "0", "2", "5", "-", "0", "7", "-", "2", "0">>
S_2020_01_01 == <<"2", "0", "2", "0", "-", "0", "1", "-", "0", "1">>
S_20_07_2025 == <<"2", "0", ".", "0", "7", ".", "2", "0", "2", "5">>
S_10_00 == <<"1", "0", ":", "0", "0">>

\* preferred dates given to the slot generator: none, a Saturday, a Sunday, a
\* Friday and a Monday in the four formats, a date that does not exist, a word
SlotDates ==
    {None,
     <<"1", "9", ".", "0", "7", ".", "2", "0", "2", "5">>,
     S_2025_07_20,
     <<"1", "8", "/", "0", "7", "/", "2", "0", "2", "5">>,
     <<"2", "1", "-", "0", "7", "-", "2", "0", "2", "5">>,
     <<"3", "1", ".", "0", "2", ".", "2", "0", "2", "5">>,
     <<"z", "a", "v", "t", "r", "a">>}

\* preferred times given to the slot generator: none, a slot, a part of
\* several slots, the closing hour, no time of day
SlotTimes ==
    {None, S_10_00, <<"3">>, <<"1", "9", ":", "0", "0">>,
     <<"2", "5", ":", "0", "0">>}

Verdict(intent, date, time, needs) ==
    [intent |-> intent, preferred_date |-> date, preferred_time |-> time,
     needs_clarification |-> needs]

\* the JSON objects the classifier answers with
Verdicts ==
    {Verdict("booking", None, None, <<"date", "time">>),
     Verdict("booking", S_2025_07_20, S_10_00, None),
     Verdict("booking", S_2020_01_01, S_10_00, None),
     Verdict("booking", S_2025_07_20, S_10_00, <<"service">>),
     Verdict("booking", S_20_07_2025, S_10_00, None),
     Verdict("booking", None, S_10_00, None),
     Verdict("booking", S_2025_07_20, JsonNumber(<<"1", "0">>), None),
     Verdict("question", None, None, None),
     Verdict("other", None, None, None),
     [confidence |-> 1]}

ClassifierReplies ==
    {[kind |-> k] : k \in ClassifierFailures}
    \cup {[kind |-> "object", object |-> v] : v \in Verdicts}

\* the answers while session tracking is explored
SessionReplies ==
    {[kind |-> "remote_error"],
     [kind |-> "object",
      object |-> Verdict("booking", None, None, <<"date", "time">>)]}

\* the outcomes of the other remote calls while session tracking is explored
SessionOutcomes == {"answer", "remote_error"}

\* the answers to the fact extraction calls while session tracking is explored
SessionFacts == {[kind |-> "remote_error"], [kind |-> "text"]}

-----------------------------------------------------------------------------
(* State                                                                   *)

NoLocals ==
    [telegram_id |-> "", text |-> <<>>, req |-> 0, client |-> 0,
     active_session |-> 0, checked_at |-> None, time_since_last |-> None,
     closing |-> None,
     session |-> 0, reply |-> [kind |-> "none"], analysis |-> [intent |-> "none"],
     path |-> "none", response |-> "none", outcome |-> "none",
     context |-> {}]

Init ==
    /\ now \in StartTimes
    /\ ticks = 0
    /\ clients = <<>>
    /\ sessions = <<>>
    /\ messages = <<>>
    /\ appointments = <<>>
    /\ usage = <<>>
    /\ reqs = 0
    /\ pc = [p \in Procs |-> "idle"]
    /\ loc = [p \in Procs |-> NoLocals]
    /\ slotIn = [preferred_date |-> None, preferred_time |-> None]
    /\ slotOut = <<>>
    /\ refreshes = <<>>
    /\ calls = <<>>

\* db.query(Client).filter(Client.telegram_id == telegram_id)
ClientsWith(telegram_id) ==
    {i \in 1..Len(clients) : clients[i].telegram_id = telegram_id}

\* db.query(ChatSession).filter(client_id == client_id, is_active == True)
ActiveSessions(client_id) ==
    {i \in 1..Len(sessions) : sessions[i].client_id = client_id
                               /\ sessions[i].is_active}

\* db.query(Message).filter(Message.session_id == session_id)
MessagesOf(session_id) ==
    {i \in 1..Len(messages) : messages[i].session_id = session_id}

\* the step of process_message moves handler p to position q with locals l
Goto(p, q, l) ==
    /\ pc' = [pc EXCEPT ![p] = q]
    /\ loc' = [loc EXCEPT ![p] = l]

\* process_message is over: it returned a reply, or raised to its caller
Return(p, outcome) == Goto(p, "idle", [NoLocals EXCEPT !.outcome = outcome])

-----------------------------------------------------------------------------
(* DialogManager.process_message, one action per store step or remote call *)

\* the transport delivers an utterance of a customer to handler p
Receive(p, customers, texts, maxRequests) ==
    /\ pc[p] = "idle"
    /\ reqs < maxRequests
    /\ reqs' = reqs + 1
    /\ \E tg \in customers, text \in texts :
          Goto(p, "get_client",
               [NoLocals EXCEPT !.telegram_id = tg, !.text = text,
                                !.req = reqs + 1])
    /\ UNCHANGED <<now, ticks, store, slotIn, slotOut, refreshes, calls>>

\* get_or_create_client: the query
GetClient(p) ==
    /\ pc[p] = "get_client"
    /\ LET C == ClientsWith(loc[p].telegram_id) IN
          IF C = {} THEN Goto(p, "create_client", loc[p])
          ELSE \E c \in C :
                 Goto(p, "find_session", [loc[p] EXCEPT !.client = c])
    /\ UNCHANGED <<now, ticks, store, reqs, slotIn, slotOut, refreshes, calls>>

\* Client(telegram_id, username=user_data.get("username")) with the column
\* defaults of the preferences; the display name that comes with utterance
\* number req is written as req
NewClient(l) ==
    [telegram_id |-> l.telegram_id, username |-> l.req,
     favorite_services |-> <<>>, favorite_masters |-> <<>>,
     preferred_time_slots |-> <<>>, custom_notes |-> {}]

\* a table whose telegram_id column accepts any value
NoUniqueConstraint(telegram_id) == FALSE

\* `telegram_id = Column(String, unique=True)`: the insert of a second row
\* with the same telegram_id is refused
UniqueViolation(telegram_id) == ClientsWith(telegram_id) # {}

\* get_or_create_client: the insert
CreateClient(p) ==
    /\ pc[p] = "create_client"
    /\ IF UniqueViolation(loc[p].telegram_id)
       THEN /\ Return(p, "raised")
            /\ UNCHANGED clients
       ELSE /\ clients' = Append(clients, NewClient(loc[p]))
            /\ Goto(p, "find_session",
                    [loc[p] EXCEPT !.client = Len(clients) + 1])
    /\ UNCHANGED <<now, ticks, sessions, messages, appointments, usage, reqs,
                   slotIn, slotOut, refreshes, calls>>

\* get_or_create_session: the query for an active session; first() takes
\* any of the rows that match
FindActiveSession(p) ==
    /\ pc[p] = "find_session"
    /\ LET A == ActiveSessions(loc[p].client) IN
          IF A = {} THEN Goto(p, "create_session", loc[p])
          ELSE \E a \in A :
                 Goto(p, "check_timeout", [loc[p] EXCEPT !.active_session = a])
    /\ UNCHANGED <<now, ticks, store, reqs, slotIn, slotOut, refreshes, calls>>

\* a tracker that also closes at exactly the timeout
SessionExpiredAtTimeout(time_since_last) == time_since_last >= SessionTimeout

\* a tracker that closes whatever the elapsed time
SessionExpiredAlways(time_since_last) == TRUE

\* `time_since_last > self.session_timeout`
SessionExpired(time_since_last) == time_since_last > SessionTimeout

\* the query ordered the other way round: the oldest message of the session
OldestMessageTime(M) == Min({messages[i].created_at : i \in M})

\* a query that looks at the bot replies only: the last reply of the
\* session, or its first message when nothing was replied
LastReplyTime(M) ==
    LET B == {i \in M : messages[i].message_type = "bot"} IN
    IF B = {} THEN Min({messages[i].created_at : i \in M})
    ELSE Max({messages[i].created_at : i \in B})

\* created_at of the first row of order_by(Message.created_at.desc())
LastMessageTime(M) == Max({messages[i].created_at : i \in M})

\* get_or_create_session: the last message of the session found and the
\* timeout check; closing the session only marks the loaded row
CheckTimeout(p) ==
    /\ pc[p] = "check_timeout"
    /\ LET M == MessagesOf(loc[p].active_session)
       IN  IF M = {}
           THEN Goto(p, "save_user",
                     [loc[p] EXCEPT !.session = loc[p].active_session])
           ELSE LET time_since_last == now - LastMessageTime(M) IN
                IF SessionExpired(time_since_last)
                THEN Goto(p, "create_session",
                          [loc[p] EXCEPT !.checked_at = Some(now),
                                         !.time_since_last = Some(time_since_last),
                                         !.closing = Some(now)])
                ELSE Goto(p, "save_user",
                          [loc[p] EXCEPT !.checked_at = Some(now),
                                         !.time_since_last = Some(time_since_last),
                                         !.session = loc[p].active_session])
    /\ UNCHANGED <<now, ticks, store, reqs, slotIn, slotOut, refreshes, calls>>

\* ChatSession(client_id, session_start=utcnow(), is_active=True)
NewSession(client_id, t) ==
    [client_id |-> client_id, session_start |-> t, session_end |-> None,
     is_active |-> TRUE]

\* a commit that does not write the pending close
CloseNotFlushed(a, closing) == sessions

\* the rows of sessions once the pending close of row a is flushed
FlushClose(a, closing) ==
    IF closing = None THEN sessions
    ELSE [sessions EXCEPT ![a] = [@ EXCEPT !.is_active = FALSE,
                                           !.session_end = closing]]

\* get_or_create_session: add the new session and commit, which also writes
\* the close of the old one
CreateSession(p) ==
    /\ pc[p] = "create_session"
    /\ sessions' = Append(FlushClose(loc[p].active_session, loc[p].closing),
                          NewSession(loc[p].client, now))
    /\ Goto(p, "save_user", [loc[p] EXCEPT !.session = Len(sessions) + 1])
    /\ UNCHANGED <<now, ticks, clients, messages, appointments, usage, reqs,
                   slotIn, slotOut, refreshes, calls>>

\* save_message
NewMessage(l, message_type, t) ==
    [client_id |-> l.client, session_id |-> l.session,
     message_type |-> message_type, created_at |-> t, req |-> l.req]

SaveUserMessage(p) ==
    /\ pc[p] = "save_user"
    /\ messages' = Append(messages, NewMessage(loc[p], "user", now))
    /\ Goto(p, "route", loc[p])
    /\ UNCHANGED <<now, ticks, clients, sessions, appointments, usage, reqs,
                   slotIn, slotOut, refreshes, calls>>

\* Appointment(client_id, appointment_datetime, status="scheduled"); req and
\* created_at record which utterance created the row and when
NewAppointment(l, path, appointment_datetime, t) ==
    [client_id |-> l.client, appointment_datetime |-> appointment_datetime,
     status |-> "scheduled", path |-> path, created_at |-> t, req |-> l.req]

\* the model each purpose is called with
ModelOf(purpose) ==
    IF purpose = "embedding" THEN "text-embedding-3-small" ELSE "gpt-4"

\* OpenAIUsageLog(model, purpose); req records the utterance the call was
\* made for
UsageRecord(l, purpose) ==
    [model |-> ModelOf(purpose), purpose |-> purpose, req |-> l.req]

\* a remote call that returned an answer, and whether the write of its usage
\* record was refused by the store
RemoteCall(l, purpose, log_failed) ==
    [purpose |-> purpose, req |-> l.req, log_failed |-> log_failed]

\* What a remote call can do: answer, raise (remote_error), or answer while
\* the usage record cannot be stored (log_error)
CallOutcomes == {"answer", "remote_error", "log_error"}

\* calls after a remote call with outcome o
CallsAfter(c, l, purpose, o) ==
    IF o = "remote_error" THEN c
    ELSE Append(c, RemoteCall(l, purpose, o = "log_error"))

\* a wrapper that writes the usage record twice
UsageWrittenTwice(u, l, purpose, o) ==
    IF o = "answer"
    THEN Append(Append(u, UsageRecord(l, purpose)), UsageRecord(l, purpose))
    ELSE u

\* usage after a remote call with outcome o: _log_usage follows the call
UsageAfter(u, l, purpose, o) ==
    IF o = "answer" THEN Append(u, UsageRecord(l, purpose)) ELSE u

\* a router that asks the classifier about every utterance
NeverTakesFastPath(message_text) == FALSE

\* _handle_message_type: the fast path is tried before the classifier
TakesFastPath(message_text) == IsBookingConfirmation(message_text)

\* _handle_message_type up to the classifier call; on the fast path the whole
\* of _handle_booking_confirmation, whose store errors become a reply
Route(p) ==
    /\ pc[p] = "route"
    /\ IF TakesFastPath(loc[p].text)
       THEN LET d == ConfirmationDecision(loc[p].text, now)
                l == [loc[p] EXCEPT !.path = "confirmation"]
            IN  IF d.kind = "create"
                THEN \/ /\ appointments' =
                              Append(appointments,
                                     NewAppointment(l, "confirmation",
                                                    Val(d.datetime), now))
                        /\ Goto(p, "save_bot",
                                [l EXCEPT !.response = "appointment_created"])
                     \/ /\ UNCHANGED appointments
                        /\ Goto(p, "save_bot", [l EXCEPT !.response = "error"])
                ELSE /\ UNCHANGED appointments
                     /\ Goto(p, "save_bot", [l EXCEPT !.response = d.kind])
       ELSE /\ UNCHANGED appointments
            /\ Goto(p, "classify", loc[p])
    /\ UNCHANGED <<now, ticks, clients, sessions, messages, usage, reqs,
                   slotIn, slotOut, refreshes, calls>>

\* the call of process_booking_request
Classify(p, replies) ==
    /\ pc[p] = "classify"
    /\ \E r \in replies :
          /\ usage' = IF UsageLogged(r)
                      THEN Append(usage, UsageRecord(loc[p], "booking_analysis"))
                      ELSE usage
          /\ calls' = IF r.kind = "remote_error" THEN calls
                      ELSE Append(calls, RemoteCall(loc[p], "booking_analysis",
                                                    r.kind = "log_error"))
          /\ Goto(p, "dispatch",
                  [loc[p] EXCEPT !.reply = r,
                                 !.analysis = ProcessBookingRequest(r)])
    /\ UNCHANGED <<now, ticks, clients, sessions, messages, appointments, reqs,
                   slotIn, slotOut, refreshes>>

\* analysis.get("intent", "other")
Intent(analysis) == Get(analysis, "intent", "other")

\* _handle_booking_request
HandleBookingRequest(p) ==
    /\ Intent(loc[p].analysis) = "booking"
    /\ LET l == [loc[p] EXCEPT !.path = "booking"]
           dt == ImmediateDatetime(loc[p].analysis)
       IN  \/ /\ dt # None
              /\ appointments' =
                    Append(appointments, NewAppointment(l, "booking", Val(dt), now))
              /\ Goto(p, "save_bot", [l EXCEPT !.response = "appointment_created"])
           \/ \* no immediate creation, or it raised inside the try block
              /\ UNCHANGED appointments
              /\ IF SlotGenerationRaises(loc[p].analysis)
                 THEN Return(p, "raised")
                 ELSE Goto(p, "save_bot",
                           [l EXCEPT !.response =
                                BookingReplyWithoutCreation(loc[p].analysis, now)])
    /\ UNCHANGED <<usage, calls>>

\* _handle_question: KnowledgeBaseManager.answer_question; the search calls
\* create_embeddings and finds rows or none, the answer calls chat_completion
HandleQuestion(p, outcomes) ==
    /\ Intent(loc[p].analysis) = "question"
    /\ UNCHANGED appointments
    /\ LET l == [loc[p] EXCEPT !.path = "question"] IN
       \E e \in outcomes :
          LET u == UsageAfter(usage, loc[p], "embedding", e)
              c == CallsAfter(calls, loc[p], "embedding", e)
          IN  \/ \* the embedding call fails, or the search finds nothing
                 /\ usage' = u
                 /\ calls' = c
                 /\ Goto(p, "save_bot", [l EXCEPT !.response = "not_found"])
              \/ /\ e = "answer"
                 /\ \E o \in outcomes :
                       /\ usage' = UsageAfter(u, loc[p], "chat", o)
                       /\ calls' = CallsAfter(c, loc[p], "chat", o)
                       /\ Goto(p, "save_bot",
                               [l EXCEPT !.response =
                                    IF o = "answer" THEN "answer" ELSE "apology"])

\* `limit=5` of the history of _handle_general_chat
HistoryLimit == 5

\* get_session_history(session_id, limit): the rows that the query can
\* return, the latest `limit` messages stored under session_id; rows of
\* equal created_at come in any order
GetSessionHistory(session_id, limit) ==
    LET M == MessagesOf(session_id)
        n == IF Cardinality(M) < limit THEN Cardinality(M) ELSE limit
    IN  {S \in SUBSET M :
            /\ Cardinality(S) = n
            /\ \A i \in S, j \in M \ S :
                  messages[i].created_at >= messages[j].created_at}

\* _handle_general_chat: the history query, called with client_profile["id"]
\* for session_id, may raise; its rows are the context of the prompt; the
\* completion call answers or degrades to an apology
HandleGeneralChat(p, outcomes) ==
    /\ Intent(loc[p].analysis) \notin {"booking", "question"}
    /\ UNCHANGED appointments
    /\ \/ \E recent_messages \in GetSessionHistory(loc[p].client, HistoryLimit),
             o \in outcomes :
             /\ usage' = UsageAfter(usage, loc[p], "chat", o)
             /\ calls' = CallsAfter(calls, loc[p], "chat", o)
             /\ Goto(p, "save_bot",
                     [loc[p] EXCEPT !.path = "chat",
                                    !.context = recent_messages,
                                    !.response =
                                        IF o = "answer" THEN "chat" ELSE "apology"])
       \/ /\ UNCHANGED <<usage, calls>>
          /\ Return(p, "raised")

\* _handle_message_type after the classifier call
Dispatch(p, outcomes) ==
    /\ pc[p] = "dispatch"
    /\ \/ HandleBookingRequest(p)
       \/ HandleQuestion(p, outcomes)
       \/ HandleGeneralChat(p, outcomes)
    /\ UNCHANGED <<now, ticks, clients, sessions, messages, reqs, slotIn, slotOut,
                   refreshes>>

\* save_message of the reply; the context of the prompt was local to the
\* handler that returned the reply
SaveBotMessage(p) ==
    /\ pc[p] = "save_bot"
    /\ messages' = Append(messages, NewMessage(loc[p], "bot", now))
    /\ Goto(p, "facts", [loc[p] EXCEPT !.context = {}])
    /\ UNCHANGED <<now, ticks, clients, sessions, appointments, usage, reqs,
                   slotIn, slotOut, refreshes, calls>>

\* the elements of a list
Elems(s) == {s[i] : i \in 1..Len(s)}

\* the lists that hold every element of S once, in any order
RECURSIVE ListsOfSet(_)
ListsOfSet(S) ==
    IF S = {} THEN {<<>>}
    ELSE UNION {{Append(s, x) : s \in ListsOfSet(S \ {x})} : x \in S}

\* a merge that concatenates
ConcatenatedLists(current, new) == {current \o new}

\* a merge that keeps the extracted list only
ReplacedLists(current, new) ==
    IF new = <<>> THEN {current} ELSE ListsOfSet(Elems(new))

\* `if facts.get(f): client.f = list(set(current + new))`: the order of a
\* list made from a set is any
MergedLists(current, new) ==
    IF new = <<>> THEN {current}
    ELSE ListsOfSet(Elems(current) \cup Elems(new))

\* a notes map is a set of <<key, value>> pairs, one pair per key
NoteKeysOf(notes) == {n[1] : n \in notes}

\* current_notes.update(new_notes)
UpdatedNotes(current, new) ==
    {n \in current : n[1] \notin NoteKeysOf(new)} \cup new

\* a store that writes the notes whenever they are assigned
NotesAlwaysWritten(current, new) ==
    IF new = {} THEN current ELSE UpdatedNotes(current, new)

\* What the commit writes to custom_notes. `current_notes = client.custom_notes
\* or {}` is the loaded dict itself unless it is empty; update() changes it in
\* place, and assigning the same object back compares equal to the value the
\* unit of work remembers, so the column is left out of the UPDATE. Only an
\* empty map is replaced by a new dict, which is written.
PersistedNotes(current, new) ==
    IF new = {} THEN current
    ELSE IF current = {} THEN UpdatedNotes(current, new)
    ELSE current

\* the fields in the order the refresh merges them
MergeOrder ==
    <<"favorite_services", "favorite_masters", "preferred_time_slots",
      "custom_notes">>

\* An extracted JSON object. The fields named in wrong_shape hold a non-empty
\* string in place of a list or a map; an absent field reads as empty.
Facts(services, masters, slots, notes, wrong_shape) ==
    [favorite_services |-> services, favorite_masters |-> masters,
     preferred_time_slots |-> slots, custom_notes |-> notes,
     wrong_shape |-> wrong_shape]

\* `current + new` with a string raises TypeError, update() with a string
\* raises ValueError
MergeRaises(facts) == facts.wrong_shape # {}

\* the fields merged before the first field that raises
FieldsBeforeFailure(facts) ==
    {MergeOrder[i] : i \in {j \in 1..Len(MergeOrder) :
                               \A k \in 1..j : MergeOrder[k] \notin facts.wrong_shape}}

\* a refresh that commits after every field
CommittedFieldByField(facts) == FieldsBeforeFailure(facts)

\* the one commit is the last statement: a merge that raises writes nothing
CommittedFields(facts) ==
    IF MergeRaises(facts) THEN {} ELSE Elems(MergeOrder)

\* the row of the customer after the refresh, the merged lists being fs, fm, ts
StoredProfile(row, facts, fs, fm, ts) ==
    LET F == CommittedFields(facts) IN
    [row EXCEPT
        !.favorite_services = IF "favorite_services" \in F THEN fs ELSE @,
        !.favorite_masters = IF "favorite_masters" \in F THEN fm ELSE @,
        !.preferred_time_slots = IF "preferred_time_slots" \in F THEN ts ELSE @,
        !.custom_notes = IF "custom_notes" \in F
                         THEN PersistedNotes(@, facts.custom_notes) ELSE @]

\* the JSON object {}
EmptyFacts == Facts(<<>>, <<>>, <<>>, {}, {})

\* What the completion service can do with a fact extraction call:
\*   remote_error  the call raises
\*   log_error     the call answers, the usage record cannot be stored
\*   text          the answer is no JSON
\*   json_other    the answer is JSON but no object (a non-empty list)
\* or it answers with a JSON object
FactFailures == {"remote_error", "log_error", "text", "json_other"}

\* OpenAIClient.extract_facts: the object, or {} from the except branch;
\* JSON that is no object is returned as it is
ExtractFactsResult(reply) ==
    IF reply.kind = "object" THEN reply.object ELSE EmptyFacts

\* how the refresh ends once extract_facts has returned: without facts it
\* returns early, `facts.get` of a list raises, a wrong-shaped field raises
\* in the merge
RefreshOutcome(reply) ==
    IF reply.kind = "json_other" THEN "failed"
    ELSE IF ExtractFactsResult(reply) = EmptyFacts THEN "none"
    ELSE IF MergeRaises(ExtractFactsResult(reply)) THEN "failed"
    ELSE "merged"

\* extracted objects: one service; services with a repetition, a master, a
\* time of day and a note; two notes, one under a key of the former; a
\* string for the masters; a string for the notes
F_cut == Facts(<<"cut">>, <<>>, <<>>, {}, {})
F_all ==
    Facts(<<"color", "cut", "color">>, <<"anna">>, <<"evening">>,
          {<<"allergies", "dye">>}, {})
F_notes ==
    Facts(<<>>, <<>>, <<>>, {<<"allergies", "none">>, <<"other", "tea">>}, {})
F_bad_masters == Facts(<<"color">>, <<>>, <<>>, {}, {"favorite_masters"})
F_bad_notes == Facts(<<>>, <<>>, <<"morning">>, {}, {"custom_notes"})

FactObjects == {EmptyFacts, F_cut, F_all, F_notes, F_bad_masters, F_bad_notes}

\* the answers to the fact extraction calls
FactReplies ==
    {[kind |-> k] : k \in FactFailures}
    \cup {[kind |-> "object", object |-> v] : v \in FactObjects}

\* a refresh of the profile of customer l.client: the answer extract_facts was
\* given and how the refresh ended
Refresh(l, reply, outcome) ==
    [req |-> l.req, client |-> l.client, reply |-> reply, outcome |-> outcome]

\* `limit=20` of the history of extract_and_update_client_facts
FactHistoryLimit == 20

\* a history read before the bot reply is saved
HistoryLengthBeforeReply(session_id, limit) ==
    LET n == Cardinality({i \in MessagesOf(session_id) :
                             messages[i].message_type = "user"})
    IN  IF n < limit THEN n ELSE limit

\* len(get_session_history(session_id, limit))
HistoryLength(session_id, limit) ==
    LET n == Cardinality(MessagesOf(session_id)) IN
    IF n < limit THEN n ELSE limit

\* extract_and_update_client_facts inside the try block of process_message,
\* then `return response`; nothing awaits between the query of the customer
\* and the commit
ExtractFacts(p, replies) ==
    /\ pc[p] = "facts"
    /\ LET row == clients[loc[p].client]
       IN  IF HistoryLength(loc[p].session, FactHistoryLimit) < 2
           THEN UNCHANGED <<clients, usage, calls, refreshes>>
           ELSE \E r \in replies :
                  LET facts == ExtractFactsResult(r) IN
                  /\ usage' = IF UsageLogged(r)
                              THEN Append(usage,
                                          UsageRecord(loc[p], "fact_extraction"))
                              ELSE usage
                  /\ calls' = IF r.kind = "remote_error" THEN calls
                              ELSE Append(calls,
                                          RemoteCall(loc[p], "fact_extraction",
                                                     r.kind = "log_error"))
                  /\ IF RefreshOutcome(r) \in {"none"} \/ r.kind = "json_other"
                     THEN /\ refreshes' =
                                Append(refreshes,
                                       Refresh(loc[p], r, RefreshOutcome(r)))
                          /\ UNCHANGED clients
                     ELSE \/ \E fs \in MergedLists(row.favorite_services,
                                                   facts.favorite_services),
                                fm \in MergedLists(row.favorite_masters,
                                                   facts.favorite_masters),
                                ts \in MergedLists(row.preferred_time_slots,
                                                   facts.preferred_time_slots) :
                               /\ refreshes' =
                                     Append(refreshes,
                                            Refresh(loc[p], r, RefreshOutcome(r)))
                               /\ clients' =
                                     [clients EXCEPT ![loc[p].client] =
                                         StoredProfile(row, facts, fs, fm, ts)]
                          \/ \* the commit raises
                             /\ ~MergeRaises(facts)
                             /\ refreshes' =
                                   Append(refreshes, Refresh(loc[p], r, "failed"))
                             /\ UNCHANGED clients
    /\ Return(p, "reply")
    /\ UNCHANGED <<now, ticks, sessions, messages, appointments, reqs,
                   slotIn, slotOut>>

\* the positions whose store call is outside every try block
UnguardedStoreSteps ==
    {"get_client", "create_client", "find_session", "check_timeout",
     "create_session", "save_user", "save_bot"}

\* the store call of the step raises: process_message raises to its caller
StoreFailure(p) ==
    /\ pc[p] \in UnguardedStoreSteps
    /\ Return(p, "raised")
    /\ UNCHANGED <<now, ticks, store, reqs, slotIn, slotOut, refreshes, calls>>

Tick(maxTicks, steps) ==
    /\ ticks < maxTicks
    /\ ticks' = ticks + 1
    /\ \E d \in steps : now' = now + d
    /\ UNCHANGED <<store, reqs, pc, loc, slotIn, slotOut, refreshes, calls>>

Step(p, replies, outcomes, facts) ==
    \/ GetClient(p)
    \/ CreateClient(p)
    \/ FindActiveSession(p)
    \/ CheckTimeout(p)
    \/ CreateSession(p)
    \/ SaveUserMessage(p)
    \/ Route(p)
    \/ Classify(p, replies)
    \/ Dispatch(p, outcomes)
    \/ SaveBotMessage(p)
    \/ ExtractFacts(p, facts)
    \/ StoreFailure(p)

AllIdle == \A p \in Procs : pc[p] = "idle"

\* Session tracking: handlers in flight interleave at their store steps; the
\* utterances are small talk
Next ==
    \/ \E p \in Procs :
          \/ Receive(p, TelegramIds, SessionTexts, MaxRequests)
          \/ Step(p, SessionReplies, SessionOutcomes, SessionFacts)
    \/ Tick(MaxTicks, TimeoutSteps)

Spec == Init /\ [][Next]_vars

\* Session tracking of one customer, one utterance processed at a time
NextSerial ==
    \/ \E p \in Procs :
          \/ AllIdle /\ Receive(p, {"a"}, SessionTexts, SerialRequests)
          \/ Step(p, SessionReplies, SessionOutcomes, SessionFacts)
    \/ Tick(SerialTicks, TimeoutSteps)

SpecSerial == Init /\ [][NextSerial]_vars

\* The dialog of one customer, one utterance at a time, over every text and
\* every answer of the classifier
NextDialog ==
    \/ \E p \in Procs :
          \/ AllIdle /\ Receive(p, {"a"}, Texts, DialogRequests)
          \/ Step(p, ClassifierReplies, CallOutcomes, SessionFacts)
    \/ Tick(DialogTicks, {1})

SpecDialog == Init /\ [][NextDialog]_vars

\* The confirmation path: one customer, one utterance at a time, on every day
\* of a week, the completion service being out of reach
NextConfirm ==
    \/ \E p \in Procs :
          \/ AllIdle /\ Receive(p, {"a"}, ConfirmTexts, ConfirmRequests)
          \/ Step(p, {[kind |-> "remote_error"]}, {"remote_error"},
                  {[kind |-> "remote_error"]})
    \/ AllIdle /\ Tick(ConfirmDays, {MinutesPerDay})

SpecConfirm == Init /\ [][NextConfirm]_vars

\* the fact refresh: one customer, one utterance at a time, over every answer
\* to the fact extraction call
NextFacts ==
    \E p \in Procs :
        \/ AllIdle /\ Receive(p, {"a"}, SessionTexts, FactRequests)
        \/ Step(p, SessionReplies, SessionOutcomes, FactReplies)

SpecFacts == Init /\ [][NextFacts]_vars

\* a call of _generate_available_slots
GenerateSlots ==
    /\ \E preferred_date \in SlotDates, preferred_time \in SlotTimes :
          /\ slotIn' = [preferred_date |-> preferred_date,
                        preferred_time |-> preferred_time]
          /\ slotOut' = GenerateAvailableSlots(preferred_date, preferred_time, now)
    /\ UNCHANGED <<now, ticks, store, reqs, pc, loc, refreshes, calls>>

\* The slot generator called on every day of a week
NextSlots ==
    \/ GenerateSlots
    \/ Tick(SlotDays, {MinutesPerDay})

SpecSlots == Init /\ [][NextSlots]_vars

-----------------------------------------------------------------------------
(* SimpleTelegramBot.handle_message, one action per store step or remote   *)
(* call; every exception is caught and answered with an apology            *)

\* "zapishi na massazh" (book me for a massage)
T_book_massage ==
    <<"z", "a", "p", "i", "sh", "i", " ", "n", "a", " ", "m", "a", "s", "s", "a", "zh">>

\* booking_keywords
SimpleBookingKeywords ==
    {<<"z", "a", "p", "i", "s", "a", "t", "q">>,
     <<"z", "a", "p", "i", "s", "a", "t", "q", "s", "ya">>,
     <<"z", "a", "p", "i", "s", "q">>,
     <<"h", "o", "ch", "u", " ", "z", "a", "p", "i", "s", "a", "t", "q", "s", "ya">>,
     <<"z", "a", "p", "i", "sh", "i">>}

\* service_keywords
SimpleServiceKeywords ==
    {<<"m", "a", "s", "s", "a", "zh">>,
     <<"o", "b", "e", "r", "t", "y", "v", "a", "n", "i", "e">>,
     <<"s", "p", "a">>,
     <<"p", "r", "o", "c", "e", "d", "u", "r", "a">>,
     <<"m", "a", "n", "i", "k", "yu", "r">>,
     <<"p", "e", "d", "i", "k", "yu", "r">>}

\* `is_booking and has_service` of process_appointment_booking
SimpleWantsBooking(message_text) ==
    /\ ContainsAny(SimpleBookingKeywords, Lower(message_text))
    /\ ContainsAny(SimpleServiceKeywords, Lower(message_text))

SimpleTexts == {T_book, T_book_massage}

\* the transport delivers an utterance of a customer to the simple bot
SimpleReceive(p, customers, texts, maxRequests) ==
    /\ pc[p] = "idle"
    /\ reqs < maxRequests
    /\ reqs' = reqs + 1
    /\ \E tg \in customers, text \in texts :
          Goto(p, "simple_get_client",
               [NoLocals EXCEPT !.telegram_id = tg, !.text = text,
                                !.req = reqs + 1])
    /\ UNCHANGED <<now, ticks, store, slotIn, slotOut, refreshes, calls>>

\* SimpleTelegramBot.get_or_create_client: the query; the second query of
\* handle_message finds the same row
SimpleGetClient(p) ==
    /\ pc[p] = "simple_get_client"
    /\ LET C == ClientsWith(loc[p].telegram_id) IN
          IF C = {} THEN Goto(p, "simple_create_client", loc[p])
          ELSE \E c \in C :
                 Goto(p, "simple_session", [loc[p] EXCEPT !.client = c])
    /\ UNCHANGED <<now, ticks, store, reqs, slotIn, slotOut, refreshes, calls>>

\* SimpleTelegramBot.get_or_create_client: the insert
SimpleCreateClient(p) ==
    /\ pc[p] = "simple_create_client"
    /\ IF UniqueViolation(loc[p].telegram_id)
       THEN /\ Return(p, "error_reply")
            /\ UNCHANGED clients
       ELSE /\ clients' = Append(clients, NewClient(loc[p]))
            /\ Goto(p, "simple_session",
                    [loc[p] EXCEPT !.client = Len(clients) + 1])
    /\ UNCHANGED <<now, ticks, sessions, messages, appointments, usage, reqs,
                   slotIn, slotOut, refreshes, calls>>

\* a handler that opens a session only for a customer without active one
SimpleSessionsReused(client_id, t) ==
    IF ActiveSessions(client_id) # {} THEN sessions
    ELSE Append(sessions, NewSession(client_id, t))

\* the rows of sessions after ChatSession(client_id, is_active=True) is added
SimpleSessions(client_id, t) == Append(sessions, NewSession(client_id, t))

\* handle_message: the session of the utterance
SimpleCreateSession(p) ==
    /\ pc[p] = "simple_session"
    /\ sessions' = SimpleSessions(loc[p].client, now)
    /\ Goto(p, "simple_save_user", [loc[p] EXCEPT !.session = Len(sessions')])
    /\ UNCHANGED <<now, ticks, clients, messages, appointments, usage, reqs,
                   slotIn, slotOut, refreshes, calls>>

\* handle_message: the user message
SimpleSaveUser(p) ==
    /\ pc[p] = "simple_save_user"
    /\ messages' = Append(messages, NewMessage(loc[p], "user", now))
    /\ Goto(p, "simple_reply", loc[p])
    /\ UNCHANGED <<now, ticks, clients, sessions, appointments, usage, reqs,
                   slotIn, slotOut, refreshes, calls>>

\* handle_message: process_appointment_booking answers a booking utterance
\* or gives None (also when it raised), and then chat_completion answers or
\* degrades to an apology
SimpleReply(p, outcomes) ==
    /\ pc[p] = "simple_reply"
    /\ \/ /\ SimpleWantsBooking(loc[p].text)
          /\ UNCHANGED <<usage, calls>>
          /\ Goto(p, "simple_save_bot", [loc[p] EXCEPT !.response = "booking"])
       \/ \E o \in outcomes :
             /\ usage' = UsageAfter(usage, loc[p], "chat", o)
             /\ calls' = CallsAfter(calls, loc[p], "chat", o)
             /\ Goto(p, "simple_save_bot",
                     [loc[p] EXCEPT !.response =
                          IF o = "answer" THEN "chat" ELSE "apology"])
    /\ UNCHANGED <<now, ticks, clients, sessions, messages, appointments, reqs,
                   slotIn, slotOut, refreshes>>

\* handle_message: the bot message, and the reply to the customer
SimpleSaveBot(p) ==
    /\ pc[p] = "simple_save_bot"
    /\ messages' = Append(messages, NewMessage(loc[p], "bot", now))
    /\ Return(p, "reply")
    /\ UNCHANGED <<now, ticks, clients, sessions, appointments, usage, reqs,
                   slotIn, slotOut, refreshes, calls>>

\* the positions of handle_message at a store call
SimpleStoreSteps ==
    {"simple_get_client", "simple_create_client", "simple_session",
     "simple_save_user", "simple_save_bot"}

\* the store call of the step raises: handle_message catches the exception
\* and replies with an apology
SimpleStoreFailure(p) ==
    /\ pc[p] \in SimpleStoreSteps
    /\ Return(p, "error_reply")
    /\ UNCHANGED <<now, ticks, store, reqs, slotIn, slotOut, refreshes, calls>>

SimpleStep(p, outcomes) ==
    \/ SimpleGetClient(p)
    \/ SimpleCreateClient(p)
    \/ SimpleCreateSession(p)
    \/ SimpleSaveUser(p)
    \/ SimpleReply(p, outcomes)
    \/ SimpleSaveBot(p)
    \/ SimpleStoreFailure(p)

\* utterances while the simple bot is explored
SimpleRequests == 3

\* The simple bot: handlers of two customers interleave at their store steps
NextSimple ==
    \E p \in Procs :
        \/ SimpleReceive(p, TelegramIds, SimpleTexts, SimpleRequests)
        \/ SimpleStep(p, SessionOutcomes)

SpecSimple == Init /\ [][NextSimple]_vars

-----------------------------------------------------------------------------
(* DialogManager.close_session and ReminderSystem.cleanup_old_sessions     *)

\* a close that leaves session_end as it is
ClosedRowWithoutEnd(row, t) == [row EXCEPT !.is_active = FALSE]

\* `session.is_active = False; session.session_end = datetime.utcnow()`
ClosedRow(row, t) == [row EXCEPT !.is_active = FALSE, !.session_end = Some(t)]

\* a deleted row keeps its place, so that the ids of the other rows stay;
\* it belongs to no customer and no query finds it
DeletedRow(row) == [row EXCEPT !.client_id = 0]

\* the rows of sessions that are not deleted
LiveSessions == {i \in 1..Len(sessions) : sessions[i].client_id # 0}

\* close_session(session_id)
CloseSession(session_id) ==
    /\ session_id \in LiveSessions
    /\ sessions' = [sessions EXCEPT ![session_id] = ClosedRow(@, now)]
    /\ UNCHANGED <<now, ticks, clients, messages, appointments, usage, reqs,
                   pc, loc, slotIn, slotOut, refreshes, calls>>

\* `timedelta(days=7)`
CleanupDays == 7

\* filter(session_end < cutoff_date, is_active == False).all()
OldSessions ==
    {i \in LiveSessions :
        /\ ~sessions[i].is_active
        /\ sessions[i].session_end # None
        /\ Val(sessions[i].session_end) < now - CleanupDays * MinutesPerDay}

\* cleanup_old_sessions: the old sessions are deleted by one commit; the
\* delete of a session sets session_id of its messages to NULL, which the
\* column does not accept, so with a message in one of them the commit
\* raises and nothing is deleted
CleanupOldSessions ==
    /\ OldSessions # {}
    /\ sessions' =
          IF \E i \in OldSessions : MessagesOf(i) # {} THEN sessions
          ELSE [i \in 1..Len(sessions) |->
                   IF i \in OldSessions THEN DeletedRow(sessions[i])
                   ELSE sessions[i]]
    /\ UNCHANGED <<now, ticks, clients, messages, appointments, usage, reqs,
                   pc, loc, slotIn, slotOut, refreshes, calls>>

\* utterances and clock steps while the life of a session is explored
LifeRequests == 3
LifeTicks == 2

\* the clock advances by a minute more than the session timeout, or by a day
\* more than the age at which closed sessions are deleted
LifeSteps == {SessionTimeout + 1, (CleanupDays + 1) * MinutesPerDay}

\* Both bots, close_session and the cleanup job on one store, one operation
\* at a time; the remote service is unreachable
NextLifecycle ==
    \/ \E p \in Procs :
          \/ AllIdle /\ Receive(p, {"a"}, SessionTexts, LifeRequests)
          \/ AllIdle /\ SimpleReceive(p, {"a"}, {T_book}, LifeRequests)
          \/ Step(p, {[kind |-> "remote_error"]}, {"remote_error"},
                  {[kind |-> "remote_error"]})
          \/ SimpleStep(p, {"remote_error"})
    \/ AllIdle /\ \E session_id \in 1..Len(sessions) : CloseSession(session_id)
    \/ AllIdle /\ CleanupOldSessions
    \/ AllIdle /\ Tick(LifeTicks, LifeSteps)

SpecLifecycle == Init /\ [][NextLifecycle]_vars

-----------------------------------------------------------------------------
(* Properties                                                              *)

\* the positions of process_message after get_or_create_session has returned
AfterSession == {"save_user", "route", "classify", "dispatch", "save_bot", "facts"}

\* the positions of process_message after _handle_message_type has returned
AfterReply == {"save_bot", "facts"}

AppointmentsOf(req) == {i \in 1..Len(appointments) : appointments[i].req = req}

\* C1: at every reachable state each customer has at most one session with
\* is_active = true, also when the handlers of one customer interleave at
\* their store steps
C1_AtMostOneActiveSession ==
    \A c \in 1..Len(clients) : Cardinality(ActiveSessions(c)) <= 1

\* C2: no appointment is persisted whose appointment_datetime is at or before
\* the time of its creation
C2_NoAppointmentInThePast ==
    \A i \in 1..Len(appointments) :
        appointments[i].appointment_datetime > appointments[i].created_at

\* C3: once get_or_create_session has returned, the active session it found
\* is closed, with session_end the time of the check, if and only if the
\* session holds a message and the time of the check minus the latest
\* created_at is strictly greater than the timeout; otherwise (exactly the
\* timeout, or no message whatever the age) it is the session returned, still
\* active and without session_end
C3_ClosedIffTimedOut ==
    \A p \in Procs :
        (pc[p] = "save_user" /\ loc[p].active_session # 0) =>
            LET a == loc[p].active_session
                M == MessagesOf(a)
                timedOut ==
                    /\ M # {}
                    /\ loc[p].checked_at # None
                    /\ Val(loc[p].checked_at)
                          - Max({messages[i].created_at : i \in M}) > SessionTimeout
            IN  IF timedOut
                THEN /\ ~sessions[a].is_active
                     /\ sessions[a].session_end = loc[p].checked_at
                ELSE /\ sessions[a].is_active
                     /\ sessions[a].session_end = None
                     /\ loc[p].session = a

\* a session was kept by an utterance exactly the timeout after its last
\* message and is closed by a later utterance
C3_Witness ==
    \E p \in Procs :
        /\ pc[p] = "save_user"
        /\ loc[p].active_session # 0
        /\ ~sessions[loc[p].active_session].is_active
        /\ \E i, j \in MessagesOf(loc[p].active_session) :
              /\ messages[i].req # messages[j].req
              /\ messages[j].created_at - messages[i].created_at = SessionTimeout
              /\ \A k \in MessagesOf(loc[p].active_session) :
                    messages[k].created_at \in
                        {messages[i].created_at, messages[j].created_at}

\* C4: when get_or_create_session has closed the session it found, the
\* session it returns is another one, active, holding no message of an
\* earlier utterance, with a session_start strictly later than that of the
\* closed session; a session returned is never a closed one
C4_ReopenedSessionIsNew ==
    \A p \in Procs :
        pc[p] \in AfterSession =>
            LET a == loc[p].active_session
                s == loc[p].session
            IN  /\ sessions[s].is_active
                /\ (a # 0 /\ ~sessions[a].is_active) =>
                      /\ s # a
                      /\ \A i \in MessagesOf(s) : messages[i].req = loc[p].req
                      /\ sessions[s].session_start > sessions[a].session_start

\* the third utterance of a customer closes the session that was opened when
\* the second utterance closed the first session, and is given a third one
C4_Witness ==
    \E p \in Procs :
        /\ pc[p] = "save_user"
        /\ loc[p].req = 3
        /\ loc[p].active_session = 2
        /\ loc[p].session = 3
        /\ ~sessions[1].is_active
        /\ ~sessions[2].is_active
        /\ sessions[3].is_active
        /\ MessagesOf(1) # {}
        /\ MessagesOf(2) # {}

PreviousMessageOfClient(j) ==
    Max({i \in 1..(j - 1) : messages[i].client_id = messages[j].client_id})

\* C5: with utterances processed one at a time, a message stored no later
\* than the timeout after the previous message of the customer, and the bot
\* reply of an utterance, are stored under the session of that previous
\* message; a session is opened only more than the timeout after every
\* message of the customer's earlier sessions
C5_WithinTimeoutSameSession ==
    /\ \A j \in 1..Len(messages) :
          (\E i \in 1..(j - 1) : messages[i].client_id = messages[j].client_id) =>
              LET i == PreviousMessageOfClient(j) IN
              (\/ messages[i].req = messages[j].req
               \/ messages[j].created_at - messages[i].created_at <= SessionTimeout)
                  => messages[j].session_id = messages[i].session_id
    /\ \A k \in 1..Len(sessions) : \A i \in 1..Len(messages) :
          (messages[i].client_id = sessions[k].client_id
           /\ messages[i].session_id < k)
              => sessions[k].session_start - messages[i].created_at > SessionTimeout

\* three utterances, the second exactly the timeout after the reply to the
\* first, are stored under one session, the only one of the customer
C5_Witness ==
    /\ Len(sessions) = 1
    /\ \E i, j, k \in 1..Len(messages) :
          /\ messages[i].req = 1 /\ messages[i].message_type = "bot"
          /\ messages[j].req = 2 /\ messages[j].message_type = "user"
          /\ messages[k].req = 3 /\ messages[k].message_type = "bot"
          /\ messages[j].created_at - messages[i].created_at = SessionTimeout
          /\ messages[i].session_id = 1
          /\ messages[j].session_id = 1
          /\ messages[k].session_id = 1

\* C6: process_message never raises to its caller
C6_NeverRaises == \A p \in Procs : loc[p].outcome # "raised"

\* C7: when the classification call failed, the verdict has intent other and
\* confidence 0, the utterance is answered by the general chat and no
\* appointment is created for it
C7_DegradedVerdictOnFailure ==
    \A p \in Procs :
        loc[p].reply.kind \in ClassifierFailures =>
            /\ "intent" \in DOMAIN loc[p].analysis
            /\ loc[p].analysis.intent = "other"
            /\ "confidence" \in DOMAIN loc[p].analysis
            /\ loc[p].analysis.confidence = 0
            /\ pc[p] \in {"dispatch"} \cup AfterReply
            /\ pc[p] \in AfterReply => loc[p].path = "chat"
            /\ AppointmentsOf(loc[p].req) = {}

\* the classifier answered with text that is no JSON and the general chat
\* has replied
C7_Witness ==
    \E p \in Procs :
        /\ loc[p].reply.kind = "text"
        /\ pc[p] = "facts"
        /\ loc[p].path = "chat"
        /\ loc[p].response = "chat"

HalfHours == {h * 60 + m : h \in 9..18, m \in {0, 30}}

HalfHourStrings == {Fmt02(h) \o <<":">> \o Fmt02(m) : h \in 9..18, m \in {0, 30}}

\* C8: every slot returned by _generate_available_slots is on Monday to
\* Friday at one of 09:00, 09:30, ..., 18:30, and at most 10 are returned
C8_SlotsOnWorkdaysInHours ==
    /\ Len(slotOut) <= 10
    /\ \A i \in 1..Len(slotOut) :
          /\ Weekday(slotOut[i].datetime) \in 0..4
          /\ MinuteOfDay(slotOut[i].datetime) \in HalfHours
          /\ slotOut[i].time \in HalfHourStrings
          /\ slotOut[i].date = DayOf(slotOut[i].datetime)

\* ten slots from a Saturday on, those of the preferred time first, the
\* first of them on the Friday after
C8_Witness ==
    /\ Len(slotOut) = 10
    /\ slotIn.preferred_time = S_10_00
    /\ slotIn.preferred_date # None
    /\ Weekday(SlotStartDate(slotIn.preferred_date, now)) = 5
    /\ Weekday(slotOut[1].datetime) = 4
    /\ \E i \in 1..Len(slotOut) : Weekday(slotOut[i].datetime) = 0

\* C9: a step of _handle_booking_request on a verdict whose clarification
\* topics are not empty replies with the clarification and changes no table
\* of the store
C9_ClarificationWithoutMutation ==
    [][\A p \in Procs :
          (/\ pc[p] = "dispatch"
           /\ pc'[p] # "dispatch"
           /\ Get(loc[p].analysis, "intent", "other") = "booking"
           /\ Get(loc[p].analysis, "needs_clarification", None) # None)
              => /\ store' = store
                 /\ pc'[p] = "save_bot"
                 /\ loc'[p].response = "clarification_requested"]_vars

\* a verdict with a date, a time and a clarification topic was answered with
\* the clarification and no appointment
C9_Witness ==
    \E p \in Procs :
        /\ pc[p] = "save_bot"
        /\ loc[p].path = "booking"
        /\ Get(loc[p].analysis, "needs_clarification", None) # None
        /\ StrptimeYMDHM(loc[p].analysis.preferred_date,
                         loc[p].analysis.preferred_time) # None
        /\ loc[p].response = "clarification_requested"
        /\ appointments = <<>>

\* C10: for an utterance the confirmation detector accepts the classifier is
\* not called, no booking_analysis usage record is written, and the reply is
\* that of the confirmation path
C10_FastPathSkipsClassifier ==
    \A p \in Procs :
        (pc[p] # "idle" /\ IsBookingConfirmation(loc[p].text)) =>
            /\ pc[p] \notin {"classify", "dispatch"}
            /\ loc[p].reply.kind = "none"
            /\ \A i \in 1..Len(usage) :
                  usage[i].req = loc[p].req => usage[i].purpose # "booking_analysis"
            /\ pc[p] \in AfterReply => loc[p].path = "confirmation"

\* an utterance with a date and a time was accepted and its appointment
\* created
C10_Witness ==
    \E p \in Procs :
        /\ pc[p] = "facts"
        /\ IsBookingConfirmation(loc[p].text)
        /\ loc[p].path = "confirmation"
        /\ loc[p].response = "appointment_created"
        /\ AppointmentsOf(loc[p].req) # {}

\* the text is one date D.M.YYYY of the calendar and nothing else
DateAlone(message_text) ==
    /\ \E m \in TripleMatches(message_text, ".") :
          m[1] = 1 /\ m[2] + m[3] + 6 = Len(message_text)
    /\ SearchTriple(message_text, ".") # None
    /\ LET d == Val(SearchTriple(message_text, ".")) IN ValidDate(d[3], d[2], d[1])

\* C11: an utterance on the confirmation path that is a date and nothing else
\* is answered with the request for a time, and no appointment is created
\* for it.
C11_DateAloneAsksForTime ==
    \A p \in Procs :
        (/\ pc[p] \in AfterReply
         /\ loc[p].path = "confirmation"
         /\ DateAlone(loc[p].text))
        => /\ loc[p].response = "ask_time"
           /\ AppointmentsOf(loc[p].req) = {}

\* the list-valued fields of a profile
ListFields == {"favorite_services", "favorite_masters", "preferred_time_slots"}

NoDuplicates(s) == \A i, j \in 1..Len(s) : s[i] = s[j] => i = j

\* the step is a fact refresh: LatestRefresh' is its record
IsRefreshStep == Len(refreshes') = Len(refreshes) + 1

LatestRefresh == refreshes[Len(refreshes)]

\* the refresh went through the merge and the commit
Merged(refresh) == refresh.outcome = "merged"

\* C12: a refresh that merges the fact set that the refresh before it has
\* merged into the same profile leaves the three list fields as they were as
\* sets, of the same length and free of duplicates: merging twice gives what
\* merging once gives.
C12_MergeIdempotent ==
    [][(/\ IsRefreshStep
        /\ refreshes # <<>>
        /\ Merged(LatestRefresh)
        /\ Merged(LatestRefresh')
        /\ LatestRefresh'.reply = LatestRefresh.reply
        /\ LatestRefresh'.client = LatestRefresh.client)
       => \A f \in ListFields :
             LET before == clients[LatestRefresh.client][f]
                 after == clients'[LatestRefresh.client][f]
             IN  /\ Elems(after) = Elems(before)
                 /\ Len(after) = Len(before)
                 /\ NoDuplicates(after)]_vars

\* the same fact set, with a repeated service, was merged twice in a row
C12_Witness ==
    \E i \in 1..(Len(refreshes) - 1) :
        /\ Merged(refreshes[i])
        /\ Merged(refreshes[i + 1])
        /\ refreshes[i].reply = [kind |-> "object", object |-> F_all]
        /\ refreshes[i + 1].reply = refreshes[i].reply
        /\ Elems(clients[refreshes[i].client].favorite_services) = {"color", "cut"}

\* C13: a refresh that merges leaves in every list field the elements it had
\* and the extracted ones, each once, and no step at all removes an element
\* from a list field of a profile.
C13_ListsAreUnions ==
    [][\A c \in 1..Len(clients), f \in ListFields :
          /\ Elems(clients[c][f]) \subseteq Elems(clients'[c][f])
          /\ (IsRefreshStep /\ Merged(LatestRefresh') /\ LatestRefresh'.client = c)
             => /\ Elems(clients'[c][f]) =
                      Elems(clients[c][f]) \cup Elems(LatestRefresh'.reply.object[f])
                /\ NoDuplicates(clients'[c][f])]_vars

\* a refresh added a service, a master and a time of day to a profile that
\* held another service
C13_Witness ==
    /\ Len(refreshes) >= 2
    /\ Merged(refreshes[1])
    /\ refreshes[1].reply = [kind |-> "object", object |-> F_cut]
    /\ Merged(refreshes[2])
    /\ refreshes[2].reply = [kind |-> "object", object |-> F_all]
    /\ Elems(clients[refreshes[2].client].favorite_services) = {"cut", "color"}
    /\ clients[refreshes[2].client].favorite_masters = <<"anna">>
    /\ clients[refreshes[2].client].preferred_time_slots = <<"evening">>

\* C14: after a refresh that merges, the stored notes hold every extracted
\* pair, every old pair whose key was not extracted, and one pair per key.
C14_NotesMergedKeyByKey ==
    [][(IsRefreshStep /\ Merged(LatestRefresh'))
       => LET c == LatestRefresh'.client
              old == clients[c].custom_notes
              new == LatestRefresh'.reply.object.custom_notes
              stored == clients'[c].custom_notes
          IN  /\ new \subseteq stored
              /\ \A n \in old : n[1] \notin NoteKeysOf(new) => n \in stored
              /\ \A n, m \in stored : n[1] = m[1] => n = m]_vars

\* C15: a refresh that ends without facts or fails (the call, the usage
\* record, the JSON, the shape of a value, the commit) changes no profile,
\* and process_message returns its reply.
C15_FailedRefreshChangesNothing ==
    [][(IsRefreshStep /\ ~Merged(LatestRefresh'))
       => /\ clients' = clients
          /\ \A p \in Procs :
                pc[p] = "facts" /\ loc[p].req = LatestRefresh'.req
                => pc'[p] = "idle" /\ loc'[p].outcome = "reply"]_vars

\* a refresh whose services were a list and whose masters were a string has
\* run on a profile with stored facts, and the reply was returned
C15_Witness ==
    \E i \in 2..Len(refreshes) :
        /\ Merged(refreshes[i - 1])
        /\ refreshes[i].reply = [kind |-> "object", object |-> F_bad_masters]
        /\ refreshes[i].outcome = "failed"
        /\ clients[refreshes[i].client].favorite_services # <<>>
        /\ "color" \notin Elems(clients[refreshes[i].client].favorite_services)
        /\ \E p \in Procs : loc[p].outcome = "reply"

PurposeTags == {"chat", "booking_analysis", "fact_extraction", "embedding"}

\* the usage record i stands for the call c
RecordOf(i, c) ==
    /\ usage[i].purpose = c.purpose
    /\ usage[i].purpose \in PurposeTags
    /\ usage[i].req = c.req
    /\ usage[i].model =
          (IF c.purpose = "embedding" THEN "text-embedding-3-small" ELSE "gpt-4")

\* the calls whose usage record the store accepted
AccountedCalls == SelectSeq(calls, LAMBDA c : ~c.log_failed)

C17_ReplyFollowsItsUtterance ==
    \A i, j \in 1..Len(messages) :
        (/\ messages[i].message_type = "user"
         /\ messages[j].message_type = "bot"
         /\ messages[j].req = messages[i].req
         /\ messages[j].session_id = messages[i].session_id)
        => /\ i < j
           /\ \A k \in (i + 1)..(j - 1) :
                 messages[k].session_id # messages[i].session_id

\* C18: after every step no two customer rows share a telegram_id, no row
\* has changed its telegram_id or the display name it was created with, and
\* a get_or_create_client query that does not raise and finds the identity
\* goes on with the row of that identity and writes nothing.
C18_OneCustomerPerIdentity ==
    [][/\ \A i, j \in 1..Len(clients') :
             clients'[i].telegram_id = clients'[j].telegram_id => i = j
       /\ \A i \in 1..Len(clients) :
             /\ clients'[i].telegram_id = clients[i].telegram_id
             /\ clients'[i].username = clients[i].username
       /\ \A p \in Procs :
             (/\ pc[p] = "get_client"
              /\ pc'[p] \notin {"get_client", "idle"}
              /\ ClientsWith(loc[p].telegram_id) # {})
             => /\ pc'[p] = "find_session"
                /\ clients[loc'[p].client].telegram_id = loc[p].telegram_id
                /\ clients' = clients]_vars

\* two first messages of one identity are in flight: one handler has inserted
\* the customer, the other one did not find it and is about to insert
C18_Witness ==
    \E p, q \in Procs :
        /\ p # q
        /\ pc[p] = "create_client"
        /\ pc[q] \in AfterSession
        /\ loc[q].telegram_id = loc[p].telegram_id
        /\ ClientsWith(loc[p].telegram_id) = {loc[q].client}
        /\ clients[loc[q].client].username = loc[q].req

\* the verdict names a booking without clarification topics, with a date and
\* a time that together are no "YYYY-MM-DD HH:MM"
UnparsableImmediateBooking(analysis) ==
    /\ Intent(analysis) = "booking"
    /\ WantsImmediateCreation(analysis)
    /\ StrptimeYMDHM(Format(analysis.preferred_date),
                     Format(analysis.preferred_time)) = None

\* C19: the step of _handle_booking_request on such a verdict creates no
\* appointment, does not raise, and replies with offered slots.
C19_UnparsableFallsThroughToSlots ==
    [][\A p \in Procs :
          (/\ pc[p] = "dispatch"
           /\ pc'[p] # "dispatch"
           /\ UnparsableImmediateBooking(loc[p].analysis))
          => /\ appointments' = appointments
             /\ pc'[p] = "save_bot"
             /\ loc'[p].response = "slots_offered"]_vars

\* the utterance names a weekday and holds no numeric date of the calendar
NamesWeekdayOnly(message_text, t) ==
    /\ ExtractDate(message_text, t) = None
    /\ NamedWeekday(message_text) # None

\* C20: an appointment that the confirmation path creates for an utterance
\* that names a weekday falls on that weekday, one to seven days after the
\* day of the utterance, and seven days after it when that day is the named
\* weekday.
C20_WeekdayIsNextOccurrence ==
    [][\A p \in Procs :
          (/\ pc[p] = "route"
           /\ TakesFastPath(loc[p].text)
           /\ NamesWeekdayOnly(loc[p].text, now)
           /\ Len(appointments') = Len(appointments) + 1)
          => LET d == appointments'[Len(appointments')].appointment_datetime
                 named == Val(NamedWeekday(loc[p].text))
             IN  /\ Weekday(d) = named
                 /\ DayOf(d) - DayOf(now) \in 1..7
                 /\ Weekday(now) = named => DayOf(d) - DayOf(now) = 7]_vars

\* on a day reached by the clock an utterance named the weekday of that day,
\* and the appointment is a week later
C20_Witness ==
    \E i \in 1..Len(appointments) :
        /\ appointments[i].path = "confirmation"
        /\ ticks >= 1
        /\ Weekday(appointments[i].appointment_datetime) =
              Weekday(appointments[i].created_at)
        /\ DayOf(appointments[i].appointment_datetime) =
              DayOf(appointments[i].created_at) + 7

\* the parts of day whose stem the lowered utterance holds
PartsOfDayIn(message_text) ==
    LET lower == Lower(message_text) IN
    (IF Contains(W_utr, lower) THEN {"morning"} ELSE {})
    \cup (IF Contains(W_dn, lower) \/ Contains(<<"d", "e", "n", "q">>, lower)
          THEN {"afternoon"} ELSE {})
    \cup (IF Contains(W_vech, lower) THEN {"evening"} ELSE {})
    \cup (IF Contains(W_noch, lower) THEN {"night"} ELSE {})

\* minutes after midnight of the hour a part of day stands for
HourOfPart(part) ==
    IF part = "morning" THEN 10 * 60
    ELSE IF part = "afternoon" THEN 13 * 60
    ELSE 18 * 60

\* C21: on the confirmation path an utterance that names a weekday, one part
\* of day and no numeric time gets, when an appointment is created for it,
\* the time 10:00 for morning, 13:00 for afternoon, 18:00 for evening; for a
\* night word no appointment is created and the reply asks for the time.
C21_PartOfDayHours ==
    [][\A p \in Procs :
          (/\ pc[p] = "route"
           /\ pc'[p] = "save_bot"
           /\ loc'[p].path = "confirmation"
           /\ ExtractTime(loc[p].text) = None
           /\ NamesWeekdayOnly(loc[p].text, now)
           /\ Cardinality(PartsOfDayIn(loc[p].text)) = 1)
          => LET part == CHOOSE x \in PartsOfDayIn(loc[p].text) : TRUE IN
             IF part = "night"
             THEN /\ appointments' = appointments
                  /\ loc'[p].response = "ask_time"
             ELSE /\ loc'[p].response \in {"appointment_created", "error"}
                  /\ loc'[p].response = "appointment_created"
                     => /\ Len(appointments') = Len(appointments) + 1
                        /\ MinuteOfDay(appointments'[Len(appointments')]
                                           .appointment_datetime) = HourOfPart(part)]_vars

\* a weekday at night has just been asked for the time, after an appointment
\* at 10:00 or 13:00 was created from a part-of-day word
C21_Witness ==
    /\ \E p \in Procs :
          /\ pc[p] = "save_bot"
          /\ loc[p].text = T_friday_night
          /\ loc[p].response = "ask_time"
    /\ \E i \in 1..Len(appointments) :
          /\ appointments[i].path = "confirmation"
          /\ MinuteOfDay(appointments[i].appointment_datetime) \in {10 * 60, 13 * 60}

\* the preferred time of the latest call is the formatted time of a slot
PreferredTimeIsSlotTime == slotIn.preferred_time \in HalfHourStrings

\* C22: when the preferred time is the time of a slot, no returned slot of
\* another time stands before a returned slot of that time, and the returned
\* slots of other times stand in chronological order.
C22_PreferredTimeFirst ==
    PreferredTimeIsSlotTime
    => \A i, j \in 1..Len(slotOut) :
          i < j
          => /\ slotOut[j].time = slotIn.preferred_time
                => slotOut[i].time = slotIn.preferred_time
             /\ (/\ slotOut[i].time # slotIn.preferred_time
                 /\ slotOut[j].time # slotIn.preferred_time)
                => slotOut[i].datetime < slotOut[j].datetime

\* slots of the preferred time and slots of other times were returned
C22_Witness ==
    /\ PreferredTimeIsSlotTime
    /\ slotOut # <<>>
    /\ slotOut[1].time = slotIn.preferred_time
    /\ \E i, j \in 1..Len(slotOut) :
          /\ i < j
          /\ slotOut[i].time # slotIn.preferred_time
          /\ slotOut[j].time # slotIn.preferred_time

\* C28: on every day reached, for every preferred date and preferred time the
\* generator returns exactly 10 slots.
C28_AlwaysTenSlots ==
    \A preferred_date \in SlotDates, preferred_time \in SlotTimes :
        Len(GenerateAvailableSlots(preferred_date, preferred_time, now)) = MaxSlots

\* ten slots were returned for a preferred date that no format parses and a
\* preferred time that is no time of day, on a Saturday
C28_Witness ==
    /\ Len(slotOut) = MaxSlots
    /\ slotIn.preferred_date = <<"z", "a", "v", "t", "r", "a">>
    /\ slotIn.preferred_time = <<"2", "5", ":", "0", "0">>
    /\ Weekday(now) = 5
    /\ slotOut[1].date = DayOf(now) + 2

\* the last working day among the seven days from start_date on
LastWorkingDay(start_date) ==
    Max({DayOf(start_date) + i : i \in {k \in 0..(WindowDays - 1) :
            ~IsWeekend(start_date + k * MinutesPerDay)}})

\* C30: when the preferred time is the time of a slot, the returned slots of
\* that time stand latest first, and the first returned slot is of that time
\* on the last working day of the seven-day window.
C30_PreferredSlotsLatestFirst ==
    [][(/\ <<slotIn, slotOut>>' # <<slotIn, slotOut>>
        /\ slotIn'.preferred_time \in HalfHourStrings)
       => /\ \A i, j \in 1..Len(slotOut') :
                (/\ i < j
                 /\ slotOut'[i].time = slotIn'.preferred_time
                 /\ slotOut'[j].time = slotIn'.preferred_time)
                => slotOut'[i].datetime > slotOut'[j].datetime
          /\ slotOut' # <<>>
          /\ slotOut'[1].time = slotIn'.preferred_time
          /\ slotOut'[1].date =
                LastWorkingDay(SlotStartDate(slotIn'.preferred_date, now))]_vars

\* from a Monday on, the first slot offered is on the Friday of that week
\* and the last slot of the preferred time on the Monday
C30_Witness ==
    /\ PreferredTimeIsSlotTime
    /\ slotOut # <<>>
    /\ Weekday(SlotStartDate(slotIn.preferred_date, now)) = 0
    /\ slotOut[1].date = DayOf(SlotStartDate(slotIn.preferred_date, now)) + 4
    /\ slotOut[5].time = slotIn.preferred_time
    /\ slotOut[5].date = DayOf(SlotStartDate(slotIn.preferred_date, now))

\* the rows of messages of utterance number req with the given type
MessagesOfRequest(M, req, message_type) ==
    {i \in 1..Len(M) : M[i].req = req /\ M[i].message_type = message_type}

\* the user messages whose utterance is no longer processed and got no reply
UnansweredMessages ==
    {i \in 1..Len(messages) :
        /\ messages[i].message_type = "user"
        /\ MessagesOfRequest(messages, messages[i].req, "bot") = {}
        /\ \A p \in Procs : loc[p].req # messages[i].req}

\* C23: with one utterance processed at a time, a user message left without
\* reply does not stand in the way of the next utterance: when the session
\* found holds such a message and its last message is no older than the
\* timeout, the session is reused, and once the reply of an utterance is
\* saved the session of the utterance holds exactly one user message and one
\* reply of it.
C23_UnansweredMessageIsRecoverable ==
    [][\A p \in Procs :
          /\ (/\ pc[p] = "check_timeout"
              /\ pc'[p] \notin {"check_timeout", "idle"}
              /\ \E i \in UnansweredMessages :
                    messages[i].session_id = loc[p].active_session
              /\ \E i \in MessagesOf(loc[p].active_session) :
                    now - messages[i].created_at <= SessionTimeout)
             => /\ pc'[p] = "save_user"
                /\ loc'[p].session = loc[p].active_session
          /\ (pc[p] = "save_bot" /\ pc'[p] = "facts")
             => \A message_type \in {"user", "bot"} :
                   /\ Cardinality(MessagesOfRequest(messages', loc[p].req,
                                                    message_type)) = 1
                   /\ \A i \in MessagesOfRequest(messages', loc[p].req,
                                                  message_type) :
                         messages'[i].session_id = loc[p].session]_vars

\* an utterance was answered in the session in which the utterance before it
\* was left without reply, the timeout later
C23_Witness ==
    /\ AllIdle
    /\ \E p \in Procs : loc[p].outcome = "reply"
    /\ \E i \in UnansweredMessages :
          \E j \in MessagesOfRequest(messages, messages[i].req + 1, "user"),
             k \in MessagesOfRequest(messages, messages[i].req + 1, "bot") :
             /\ messages[j].session_id = messages[i].session_id
             /\ messages[k].session_id = messages[i].session_id
             /\ messages[j].created_at = messages[i].created_at + SessionTimeout
             /\ i > 2

\* C26: with one utterance processed at a time, from a store without
\* sessions, no customer is ever stored with two active sessions, and once
\* get_or_create_session has returned the customer has exactly one active
\* session, the one returned.
C26_SerialOneActiveSession ==
    /\ \A c \in 1..Len(clients) : Cardinality(ActiveSessions(c)) <= 1
    /\ \A p \in Procs :
          pc[p] \in AfterSession
          => ActiveSessions(loc[p].client) = {loc[p].session}

\* get_or_create_session has just closed a timed-out session and returned
\* its replacement, the customer's only active session
C26_Witness ==
    \E p \in Procs :
        /\ pc[p] = "save_user"
        /\ loc[p].closing # None
        /\ loc[p].session = Len(sessions)
        /\ loc[p].session # loc[p].active_session
        /\ sessions[loc[p].active_session].session_end = loc[p].closing
        /\ sessions[loc[p].session].session_start = Val(loc[p].closing)
        /\ ActiveSessions(loc[p].client) = {loc[p].session}

\* the sessions of a customer
SessionsOfClient(c) == {i \in 1..Len(sessions) : sessions[i].client_id = c}

\* the sessions that hold a bot message
AnsweredSessions(c) ==
    {i \in SessionsOfClient(c) :
        \E m \in MessagesOf(i) : messages[m].message_type = "bot"}

\* the utterances of a customer that the simple bot has answered
AnsweredRequests(c) ==
    {messages[m].req : m \in {k \in 1..Len(messages) :
                                  /\ messages[k].client_id = c
                                  /\ messages[k].message_type = "bot"}}

\* C24: in the simple bot every session of a customer is active, the
\* customer has as many sessions holding a reply as utterances answered, and
\* each of them holds exactly the user message and the reply of one
\* utterance; the other sessions hold at most the user message of an
\* utterance in flight or failed.
C24_OneActiveSessionPerMessage ==
    \A c \in 1..Len(clients) :
        /\ ActiveSessions(c) = SessionsOfClient(c)
        /\ Cardinality(AnsweredSessions(c)) = Cardinality(AnsweredRequests(c))
        /\ \A i \in SessionsOfClient(c) :
              /\ \A m, k \in MessagesOf(i) :
                    /\ messages[m].req = messages[k].req
                    /\ messages[m].message_type = messages[k].message_type
                       => m = k
              /\ Cardinality(MessagesOf(i)) =
                    IF i \in AnsweredSessions(c) THEN 2
                    ELSE IF \E m \in 1..Len(messages) : messages[m].session_id = i
                         THEN 1 ELSE 0

\* three utterances of one customer are answered: three active sessions,
\* each with the two messages of one utterance
C24_Witness ==
    /\ AllIdle
    /\ \E c \in 1..Len(clients) :
          /\ Cardinality(ActiveSessions(c)) = SimpleRequests
          /\ Cardinality(AnsweredRequests(c)) = SimpleRequests
          /\ \A i \in ActiveSessions(c) : Cardinality(MessagesOf(i)) = 2

\* C27: after every step each stored session is inactive exactly when its
\* session_end is set, and a session that was inactive before the step and
\* is still stored is inactive with session_end set after it.
C27_SessionLifeIsOneWay ==
    [][\A i \in 1..Len(sessions') :
          sessions'[i].client_id # 0
          => /\ ~sessions'[i].is_active <=> sessions'[i].session_end # None
             /\ (i <= Len(sessions) /\ ~sessions[i].is_active)
                => /\ ~sessions'[i].is_active
                   /\ sessions'[i].session_end # None]_vars

\* an empty session closed by close_session was deleted by the cleanup job,
\* beside a closed session with messages that is still stored, and an active
\* one
C27_Witness ==
    /\ \E i \in 1..Len(sessions) : sessions[i].client_id = 0
    /\ \E i \in LiveSessions :
          /\ ~sessions[i].is_active
          /\ MessagesOf(i) # {}
    /\ \E i \in LiveSessions : sessions[i].is_active

\* C25: the context of a prompt built on the general-chat path for an
\* utterance of a customer holds no message stored under a session of
\* another customer.
C25_ContextOfOwnSessionOnly ==
    \A p \in Procs :
        \A m \in loc[p].context :
            sessions[messages[m].session_id].client_id = loc[p].client

\* the fact-extraction calls issued for utterance number req
RefreshesOf(req) == {i \in 1..Len(refreshes) : refreshes[i].req = req}

\* process_message has returned the reply to utterance number req
Processed(req) ==
    /\ MessagesOfRequest(messages, req, "bot") # {}
    /\ \A p \in Procs : loc[p].req # req

====
